---- MODULE Spec2Model ----
(***************************************************************************)
(* The configuration command engine of the VyOS desktop manager:           *)
(*   ipc-handlers.ts  VYOS_EXECUTE_COMMANDS / SSH_DISCONNECT handlers      *)
(*   VyOSClient.executeCommands -> CommandExecutor.executeWithRollback     *)
(*   CommandExecutor.rollback, parseErrors, hasCommitFailed                *)
(*   SSHClient.shell (prompt driven interactive channel), disconnect       *)
(*                                                                         *)
(* Each device has one registered client.  Each call of the handler is a   *)
(* process c \in Calls; the asynchronous handler is cut at its awaits.     *)
(* The device is the environment: it emits output chunks, closes or        *)
(* breaks the channel, and the session timer may expire.                   *)
(*                                                                         *)
(* A transcript is abstracted to the set of markers it contains; a chunk   *)
(* is the prompt it carries and the markers it completes.                  *)
(*                                                                         *)
(* SpecCfg exercises the pure part: sanitizeConfigValue, the build methods *)
(* of CommandBuilder and ConfigParser.parse with parseInterfaces and       *)
(* parseStaticRoutes, on strings represented as sequences of symbols.      *)
(***************************************************************************)
EXTENDS Integers, Sequences, FiniteSets, TLC

\* ---------------------------------------------------------------- bounds
MaxStmts == 2

\* ------------------------------------------------------------- vocabulary
Calls == {1, 2}
Devices == {"A", "B"}
Phases == {"main", "rollback"}
Stmts == {"s1", "s2"}

\* VYOS_COMMANDS (constants.ts)
ENTER_CONFIG == "configure"
EXIT_CONFIG == "exit"
COMMIT == "commit"
SAVE == "save"
ROLLBACK_0 == "rollback 0"

\* markers a transcript may contain: "err" is a line matched by parseErrors,
\* "cf" a substring matched by hasCommitFailed
Markers == {"err", "cf"}

\* prompt text of a chunk: none, "[edit]" only, or a "$" / "#" character
Prompts == {"none", "edit", "shell"}

Chunks == [p : Prompts, m : SUBSET Markers]

Batches == UNION {[1..n -> Stmts] : n \in 0..MaxStmts}

Options == [commit : BOOLEAN, save : BOOLEAN]

VARIABLES
  registered,    \* per device: activeConnections.has(deviceId)
  connected,     \* per device: SSHClient.isConnected()
  target,        \* per call: the deviceId argument
  commands,      \* per call: the statements supplied by the caller
  opts,          \* per call: {commit, save}
  pc,            \* per call: position of the asynchronous call
  phase,         \* per call: which shell() invocation is running
  commandIndex,  \* per call: shell()'s commandIndex
  shellReady,    \* per call: shell()'s shellReady
  timerArmed,    \* per call: shell()'s timeoutHandle is pending
  output,        \* per call, per phase: markers in shell()'s output
  outcome,       \* per call, per phase: how the shell() promise settled
  written,       \* per call, per phase: statements written to the channel
  caught,        \* per call: the error caught at executeWithRollback:67
  result,        \* per call: what the call returned or threw
  cfAfterCommit, \* per call: a "cf" marker arrived after commit was written
  cutMid,        \* per call: the client was disconnected mid-session
  backedUp,      \* per call: createBackup stored the configuration read
  kind,          \* builder/parser run: which operation is exercised
  input,         \* builder/parser run: the value, domain model or device text
  cfgpc,         \* builder/parser run: position ("idle" outside such a run)
  lines,         \* builder/parser run: the strings produced so far
  tree,          \* ConfigParser.parse: the tree, entries in insertion order
  cursor,        \* ConfigParser.parse: index of the next line of the loop
  parsed,        \* what parseInterfaces / parseStaticRoutes returned
  strict,        \* the build runs ConfigParser.addToTree as strict code
  prev,          \* what the previous call of the build method returned
  thrown,        \* the error a build method threw
  stale,         \* per call: the data handler of the batch stream the timer
                 \* ended, while that stream has not closed
  connpc,        \* per SSH_CONNECT call: position of the handler
  connRes,       \* per SSH_CONNECT call: the success field of its response
  orphans,       \* per device: connected clients that are not in activeConnections
  testpc,        \* DEVICE_TEST: position of the handler
  attempt,       \* DEVICE_TEST: connect() calls made by SSHClient.testConnection
  testRes,       \* DEVICE_TEST: how the test ended
  status         \* per device: the stored DeviceProfile.status

execVars == <<registered, connected, target, commands, opts, pc, phase, commandIndex,
              shellReady, timerArmed, output, outcome, written, caught, result,
              cfAfterCommit, cutMid, backedUp>>

cfgVars == <<kind, input, cfgpc, lines, tree, cursor, parsed, strict, prev, thrown>>

connVars == <<connpc, connRes, orphans, testpc, attempt, testRes, status>>

\* what the executor's and the builder's steps leave alone
restVars == <<cfgVars, connVars, stale>>

vars == <<execVars, cfgVars, connVars, stale>>

\* ------------------------------------------------------------ error values
\* transcript is <<out>> when the error object carries the shell output out
\* (the output argument of VyOSCommandError / VyOSCommitError), <<>> otherwise
NoError == [class |-> "none", msg |-> "none", rollbackMsg |-> "none", origMsg |-> "none", transcript |-> <<>>]
Pending == [class |-> "pending", msg |-> "none", rollbackMsg |-> "none", origMsg |-> "none", transcript |-> <<>>]
Success == [class |-> "none", msg |-> "success", rollbackMsg |-> "none", origMsg |-> "none", transcript |-> <<>>]

MkError(class, msg) ==
  [class |-> class, msg |-> msg, rollbackMsg |-> "none", origMsg |-> "none", transcript |-> <<>>]

SSHConnectionError(msg) == MkError("SSHConnectionError", msg)

VyOSCommitError(msg, out) == [MkError("VyOSCommitError", msg) EXCEPT !.transcript = <<out>>]

VyOSCommandError(msg, out) == [MkError("VyOSCommandError", msg) EXCEPT !.transcript = <<out>>]

\* executeWithRollback:76-80
RollbackFailedError(rollbackError, error) ==
  [class |-> "VyOSCommandError", msg |-> "Command execution failed and rollback also failed",
   rollbackMsg |-> rollbackError.msg, origMsg |-> error.msg, transcript |-> <<>>]

\* ------------------------------------------------------- pure helpers
\* a queue built with save pushed before commit
FullCommandsSaveFirst(cmds, o) ==
  <<ENTER_CONFIG>> \o cmds
    \o (IF o.save THEN <<SAVE>> ELSE <<>>)
    \o (IF o.commit THEN <<COMMIT>> ELSE <<>>)
    \o <<EXIT_CONFIG>>

\* executeWithRollback:28-41
FullCommands(cmds, o) ==
  <<ENTER_CONFIG>> \o cmds
    \o (IF o.commit THEN <<COMMIT>> ELSE <<>>)
    \o (IF o.save THEN <<SAVE>> ELSE <<>>)
    \o <<EXIT_CONFIG>>

\* rollback:210-216, revision = 0
RollbackCommands == <<ENTER_CONFIG, ROLLBACK_0, COMMIT, SAVE, EXIT_CONFIG>>

\* parseErrors(output).length > 0
parseErrors(out) == "err" \in out

hasCommitFailed(out) == "cf" \in out

\* the queue the running shell() was given
Queue(c) == IF phase[c] = "main" THEN FullCommands(commands[c], opts[c]) ELSE RollbackCommands

\* --------------------------------------------------- executeWithRollback
\* the try block with the errors.length test inverted
MainErrorInverted(c, o) ==
  IF o # "resolved" THEN SSHConnectionError(o)
  ELSE IF ~parseErrors(output[c]["main"]) THEN VyOSCommandError("Command execution failed", output[c]["main"])
  ELSE IF opts[c].commit /\ hasCommitFailed(output[c]["main"]) THEN VyOSCommitError("Commit failed", output[c]["main"])
  ELSE NoError

\* the try block without the commit-failure check
MainErrorNoCommitCheck(c, o) ==
  IF o # "resolved" THEN SSHConnectionError(o)
  ELSE IF parseErrors(output[c]["main"]) THEN VyOSCommandError("Command execution failed", output[c]["main"])
  ELSE NoError

\* the error raised inside the try block (executeWithRollback:47-64) once the
\* shell() promise of the batch settled with outcome o
MainError(c, o) ==
  IF o # "resolved" THEN SSHConnectionError(o)
  ELSE IF parseErrors(output[c]["main"]) THEN VyOSCommandError("Command execution failed", output[c]["main"])
  ELSE IF opts[c].commit /\ hasCommitFailed(output[c]["main"]) THEN VyOSCommitError("Commit failed", output[c]["main"])
  ELSE NoError

\* the error raised by rollback(0) (rollback:218-222) once its shell() settled
RollbackError(c, o) ==
  IF o # "resolved" THEN SSHConnectionError(o)
  ELSE IF hasCommitFailed(output[c]["rollback"]) THEN VyOSCommitError("Rollback commit failed", output[c]["rollback"])
  ELSE NoError

\* a catch block that does not rethrow after a successful rollback
CatchResultSwallow(error, rbErr) ==
  IF rbErr = NoError THEN Success ELSE RollbackFailedError(rbErr, error)

\* a catch block that rethrows a plain Error with the caught message
CatchResultRewrap(error, rbErr) ==
  IF rbErr = NoError THEN MkError("Error", error.msg) ELSE RollbackFailedError(rbErr, error)

\* what the caller of executeWithRollback gets after the catch block
\* (executeWithRollback:67-84): error is the caught one, rbErr the rollback's
CatchResult(error, rbErr) ==
  IF rbErr = NoError THEN error ELSE RollbackFailedError(rbErr, error)

\* The continuation that runs when a shell() promise settles with outcome o.
\* It runs up to the next await, so it is one step: the executor's checks,
\* the catch block, and the synchronous head of rollback()'s shell() call.
Continue(c, o) ==
  IF phase[c] = "main"
  THEN LET e == MainError(c, o) IN
       IF e = NoError
       THEN [pc |-> "done", phase |-> "main", caught |-> NoError, result |-> Success,
             rb |-> "none"]
       ELSE IF ~connected[target[c]]
            THEN [pc |-> "done", phase |-> "rollback", caught |-> e,
                  result |-> CatchResult(e, SSHConnectionError("NotConnected")),
                  rb |-> "NotConnected"]
            ELSE [pc |-> "starting", phase |-> "rollback", caught |-> e,
                  result |-> Pending, rb |-> "none"]
  ELSE [pc |-> "done", phase |-> "rollback", caught |-> caught[c],
        result |-> CatchResult(caught[c], RollbackError(c, o)), rb |-> o]

Settle(c, o) ==
  LET r == Continue(c, o) IN
  /\ pc' = [pc EXCEPT ![c] = r.pc]
  /\ phase' = [phase EXCEPT ![c] = r.phase]
  /\ caught' = [caught EXCEPT ![c] = r.caught]
  /\ result' = [result EXCEPT ![c] = r.result]
  /\ outcome' = [outcome EXCEPT ![c] =
       IF phase[c] = "main" THEN [main |-> o, rollback |-> r.rb]
       ELSE [@ EXCEPT !["rollback"] = o]]
  /\ commandIndex' = [commandIndex EXCEPT ![c] = 0]
  /\ shellReady' = [shellReady EXCEPT ![c] = FALSE]
  /\ timerArmed' = [timerArmed EXCEPT ![c] = FALSE]

\* no stream is left over / the closure of a 'data' handler (shell:217-218)
NoHandler == [live |-> FALSE, shellReady |-> FALSE, commandIndex |-> 0]
Handler(ready, index) == [live |-> TRUE, shellReady |-> ready, commandIndex |-> index]

\* ------------------------------------------------------------------- Init
InitShape ==
  /\ registered = [d \in Devices |-> TRUE]
  /\ connected = [d \in Devices |-> TRUE]
  /\ pc = [c \in Calls |-> "idle"]
  /\ phase = [c \in Calls |-> "main"]
  /\ commandIndex = [c \in Calls |-> 0]
  /\ shellReady = [c \in Calls |-> FALSE]
  /\ timerArmed = [c \in Calls |-> FALSE]
  /\ output = [c \in Calls |-> [ph \in Phases |-> {}]]
  /\ outcome = [c \in Calls |-> [ph \in Phases |-> "none"]]
  /\ written = [c \in Calls |-> [ph \in Phases |-> <<>>]]
  /\ caught = [c \in Calls |-> NoError]
  /\ result = [c \in Calls |-> Pending]
  /\ cfAfterCommit = [c \in Calls |-> FALSE]
  /\ cutMid = [c \in Calls |-> FALSE]
  /\ backedUp = [c \in Calls |-> FALSE]
  /\ stale = [c \in Calls |-> NoHandler]

\* every call is for device A
OneDevice == target = [c \in Calls |-> "A"]

\* no error / a TypeError of the engine for reading property `reading` of
\* undefined
NoThrow == [class |-> "none", reading |-> "none"]
TypeErrorReading(property) == [class |-> "TypeError", reading |-> property]

\* no SSH_CONNECT and no DEVICE_TEST is in progress
ConnIdle ==
  /\ connpc = [k \in Calls |-> "idle"]
  /\ connRes = [k \in Calls |-> "none"]
  /\ orphans = [d \in Devices |-> 0]
  /\ testpc = "idle"
  /\ attempt = 0
  /\ testRes = "none"
  /\ status = [d \in Devices |-> "unknown"]

\* no builder or parser run is in progress
CfgIdle ==
  /\ kind = "none"
  /\ input = <<>>
  /\ cfgpc = "idle"
  /\ lines = <<>>
  /\ tree = <<>>
  /\ cursor = 0
  /\ parsed = <<>>
  /\ strict = FALSE
  /\ prev = <<>>
  /\ thrown = NoThrow

\* one call; the second slot never starts
Init ==
  /\ InitShape
  /\ OneDevice
  /\ CfgIdle
  /\ ConnIdle
  /\ \E b \in Batches, o \in Options :
       /\ commands = [c \in Calls |-> IF c = 1 THEN b ELSE <<>>]
       /\ opts = [c \in Calls |-> IF c = 1 THEN o ELSE [commit |-> FALSE, save |-> FALSE]]

\* --------------------------------------------------------------- actions
\* VYOS_EXECUTE_COMMANDS handler, up to its first await (ipc-handlers:243-251)
HandlerStart(c) ==
  /\ pc[c] = "idle"
  /\ IF registered[target[c]]
     THEN /\ pc' = [pc EXCEPT ![c] = "backup"]
          /\ UNCHANGED result
     ELSE /\ pc' = [pc EXCEPT ![c] = "done"]
          /\ result' = [result EXCEPT ![c] = MkError("Error", "Not connected to device")]
  /\ UNCHANGED <<registered, connected, target, backedUp, commands, opts, phase, commandIndex,
                 shellReady, timerArmed, output, outcome, written, caught,
                 cfAfterCommit, cutMid>>
  /\ UNCHANGED restVars

\* The backup awaits have settled (ipc-handlers:251-260); when they did not
\* throw, executeCommands -> executeWithRollback -> shell() runs up to
\* client.shell() (VyOSClient.executeCommands, executeWithRollback:26-47,
\* shell:210-220).  b: "stored", "skipped" (no device profile) or "failed".
BackupDone(c, b) ==
  /\ pc[c] = "backup"
  /\ IF b = "failed"
     THEN /\ pc' = [pc EXCEPT ![c] = "done"]
          /\ result' = [result EXCEPT ![c] = MkError("Error", "Backup failed")]
          /\ UNCHANGED <<phase, caught, outcome, commandIndex, shellReady, timerArmed>>
     ELSE IF ~connected[target[c]]
          THEN Settle(c, "NotConnected")
          ELSE /\ pc' = [pc EXCEPT ![c] = "starting"]
               /\ UNCHANGED <<phase, caught, outcome, result, commandIndex,
                              shellReady, timerArmed>>
  /\ UNCHANGED <<registered, connected, target, commands, opts, output, written,
                 cfAfterCommit, cutMid>>
  /\ backedUp' = [backedUp EXCEPT ![c] = (b = "stored")]
  /\ UNCHANGED restVars

\* client.shell() calls back with a stream; the timer is armed (shell:220-229)
ShellStarted(c) ==
  /\ pc[c] = "starting"
  /\ connected[target[c]]
  /\ pc' = [pc EXCEPT ![c] = "open"]
  /\ timerArmed' = [timerArmed EXCEPT ![c] = TRUE]
  /\ UNCHANGED <<registered, connected, target, backedUp, commands, opts, phase, commandIndex,
                 shellReady, output, outcome, written, caught, result,
                 cfAfterCommit, cutMid>>
  /\ UNCHANGED restVars

\* client.shell() calls back with an error (shell:221-224)
ShellStartFailed(c) ==
  /\ pc[c] = "starting"
  /\ Settle(c, "StartFailed")
  /\ UNCHANGED <<registered, connected, target, backedUp, commands, opts, output, written,
                 cfAfterCommit, cutMid>>
  /\ UNCHANGED restVars

\* The stream's 'data' handler (shell:232-255) for one chunk ch.
\* text.includes('$') || text.includes('#') is ch.p = "shell";
\* text.includes('[edit]') alone is ch.p = "edit".
HasShellPrompt(ch) == ch.p = "shell"

HasAnyPrompt(ch) == ch.p # "none"

\* shell:237-239
ReadyAfter(c, ch) == shellReady[c] \/ HasShellPrompt(ch)

\* a handler that writes the next command on every chunk once the shell is ready
SendsOnAnyData(c, ch) ==
  /\ ReadyAfter(c, ch)
  /\ commandIndex[c] < Len(Queue(c))

\* shell:242-243: does the handler write the next command for this chunk
Sends(c, ch) ==
  /\ ReadyAfter(c, ch)
  /\ commandIndex[c] < Len(Queue(c))
  /\ HasAnyPrompt(ch)

IndexAfter(c, ch) == IF Sends(c, ch) THEN commandIndex[c] + 1 ELSE commandIndex[c]

\* shell:251: all commands sent and a "$"/"#" in this chunk
Finishes(c, ch) ==
  /\ IndexAfter(c, ch) >= Len(Queue(c))
  /\ HasShellPrompt(ch)

\* After stream.end() a write does not reach the device (the stream is
\* ending); the stream still delivers data until it closes.
Data(c, ch) ==
  /\ pc[c] \in {"open", "ended"}
  /\ connected[target[c]]
  /\ output' = [output EXCEPT ![c][phase[c]] = @ \cup ch.m]
  /\ shellReady' = [shellReady EXCEPT ![c] = ReadyAfter(c, ch)]
  /\ commandIndex' = [commandIndex EXCEPT ![c] = IndexAfter(c, ch)]
  /\ written' = [written EXCEPT ![c][phase[c]] =
       IF Sends(c, ch) /\ pc[c] = "open"
       THEN Append(@, Queue(c)[commandIndex[c] + 1]) ELSE @]
  /\ pc' = [pc EXCEPT ![c] = IF Finishes(c, ch) THEN "ended" ELSE @]
  /\ timerArmed' = [timerArmed EXCEPT ![c] = IF Finishes(c, ch) THEN FALSE ELSE @]
  /\ cfAfterCommit' = [cfAfterCommit EXCEPT ![c] =
       @ \/ (phase[c] = "main" /\ "cf" \in ch.m /\ COMMIT \in {written[c]["main"][i] : i \in 1..Len(written[c]["main"])})]
  /\ UNCHANGED <<registered, connected, target, backedUp, commands, opts, phase, outcome,
                 caught, result, cutMid>>
  /\ UNCHANGED restVars

\* The session timer fires (shell:226-229): stream.end(), reject.  The
\* stream stays open for reading and keeps its 'data' handler.
TimerExpire(c) ==
  /\ pc[c] = "open"
  /\ timerArmed[c]
  /\ Settle(c, "Timeout")
  /\ stale' = [stale EXCEPT ![c] =
       IF phase[c] = "main" THEN Handler(shellReady[c], commandIndex[c]) ELSE @]
  /\ UNCHANGED <<registered, connected, target, backedUp, commands, opts, output, written,
                 cfAfterCommit, cutMid>>
  /\ UNCHANGED <<cfgVars, connVars>>

\* The stream's 'close' event (shell:256-259): resolve(output).
StreamClose(c) ==
  /\ pc[c] \in {"open", "ended"}
  /\ Settle(c, "resolved")
  /\ UNCHANGED <<registered, connected, target, backedUp, commands, opts, output, written,
                 cfAfterCommit, cutMid>>
  /\ UNCHANGED restVars

\* The stream's 'error' event (shell:260-263): reject.
StreamError(c) ==
  /\ pc[c] \in {"open", "ended"}
  /\ Settle(c, "ShellError")
  /\ UNCHANGED <<registered, connected, target, backedUp, commands, opts, output, written,
                 cfAfterCommit, cutMid>>
  /\ UNCHANGED restVars

\* is call c inside its batch session: configure written, channel not closed
MidSession(c) ==
  /\ phase[c] = "main"
  /\ pc[c] \in {"open", "ended"}
  /\ written[c]["main"] # <<>>

\* a handler that drops every connection (activeConnections.clear())
DisconnectEveryDevice(d) ==
  /\ registered[d]
  /\ registered' = [e \in Devices |-> FALSE]
  /\ connected' = [e \in Devices |-> FALSE]
  /\ cutMid' = [c \in Calls |-> cutMid[c] \/ MidSession(c)]
  /\ UNCHANGED <<target, backedUp, commands, opts, pc, phase, commandIndex, shellReady,
                 timerArmed, output, outcome, written, caught, result,
                 cfAfterCommit>>
  /\ UNCHANGED restVars

\* SSH_DISCONNECT / DEVICE_DELETE (ipc-handlers:194-207, 94-104) with
\* VyOSClient.disconnect -> SSHClient.disconnect (SSHClient:115-122).
\* The connection ends; its channels get no more data, only 'close'.
Disconnect(d) ==
  /\ registered[d]
  /\ registered' = [registered EXCEPT ![d] = FALSE]
  /\ connected' = [connected EXCEPT ![d] = FALSE]
  /\ cutMid' = [c \in Calls |-> cutMid[c] \/ (target[c] = d /\ MidSession(c))]
  /\ UNCHANGED <<target, backedUp, commands, opts, pc, phase, commandIndex, shellReady,
                 timerArmed, output, outcome, written, caught, result,
                 cfAfterCommit>>
  /\ UNCHANGED restVars

\* The connection's 'close' / 'end' event (SSHClient:100-107).
ConnectionLost(d) ==
  /\ connected[d]
  /\ connected' = [connected EXCEPT ![d] = FALSE]
  /\ UNCHANGED <<registered, target, backedUp, commands, opts, pc, phase, commandIndex,
                 shellReady, timerArmed, output, outcome, written, caught,
                 result, cfAfterCommit, cutMid>>
  /\ UNCHANGED restVars

\* shared/constants.ts:12
SSH_MAX_RETRIES == 3

\* ------------------------------------------------------------------ Next
Step(c) ==
  \/ HandlerStart(c)
  \/ \E b \in {"stored", "skipped", "failed"} : BackupDone(c, b)
  \/ ShellStarted(c)
  \/ ShellStartFailed(c)
  \/ \E ch \in Chunks : Data(c, ch)
  \/ TimerExpire(c)
  \/ StreamClose(c)
  \/ StreamError(c)

Next ==
  \/ Step(1)
  \/ Disconnect("A")
  \/ ConnectionLost("A")

Spec == Init /\ [][Next]_vars

\* ------------------------------------------- two calls on the same device
\* a device that answers with prompts only
QuietChunks == {ch \in Chunks : ch.m = {}}

InitConc ==
  /\ InitShape
  /\ OneDevice
  /\ CfgIdle
  /\ ConnIdle
  /\ commands = [c \in Calls |-> IF c = 1 THEN <<"s1">> ELSE <<"s2">>]
  /\ opts = [c \in Calls |-> [commit |-> FALSE, save |-> FALSE]]

StepConc(c) ==
  \/ HandlerStart(c)
  \/ \E b \in {"stored", "skipped", "failed"} : BackupDone(c, b)
  \/ ShellStarted(c)
  \/ ShellStartFailed(c)
  \/ \E ch \in QuietChunks : Data(c, ch)
  \/ TimerExpire(c)
  \/ StreamClose(c)
  \/ StreamError(c)

NextConc ==
  \/ \E c \in Calls : StepConc(c)
  \/ Disconnect("A")
  \/ ConnectionLost("A")

SpecConc == InitConc /\ [][NextConc]_vars

\* ------------------------------------------------- one call per device
\* Device A may answer with error markers, break, time out and be
\* disconnected; device B answers with its prompt and closes the channel.
DeviceChunks(c) ==
  IF c = 1 THEN {ch \in Chunks : ch.m \subseteq {"err"}}
  ELSE {ch \in QuietChunks : ch.p = "shell"}

InitDev ==
  /\ InitShape
  /\ CfgIdle
  /\ ConnIdle
  /\ target = [c \in Calls |-> IF c = 1 THEN "A" ELSE "B"]
  /\ commands = [c \in Calls |-> <<"s1">>]
  /\ opts = [c \in Calls |-> [commit |-> FALSE, save |-> FALSE]]

StepDev(c) ==
  \/ HandlerStart(c)
  \/ \E b \in (IF c = 1 THEN {"stored", "skipped", "failed"} ELSE {"stored"}) : BackupDone(c, b)
  \/ ShellStarted(c)
  \/ c = 1 /\ ShellStartFailed(c)
  \/ \E ch \in DeviceChunks(c) : Data(c, ch)
  \/ c = 1 /\ TimerExpire(c)
  \/ StreamClose(c)
  \/ c = 1 /\ StreamError(c)

NextDev ==
  \/ \E c \in Calls : StepDev(c)
  \/ Disconnect("A")
  \/ ConnectionLost("A")

SpecDev == InitDev /\ [][NextDev]_vars

\* ----------------------------------------- the stream the timer has ended
\* stream.write on a stream that stream.end() was called on: the Writable
\* refuses it (write after end) and nothing reaches the device
StaleWriteReaches(c, statement) == Append(written[c]["main"], statement)

StaleWrite(c, statement) == written[c]["main"]

\* The 'data' handler (shell:232-255) of the batch stream after the timer
\* ended it (shell:226-229): the handler is still attached and runs on its
\* own shellReady and commandIndex; the promise is settled already.
StaleData(c, ch) ==
  LET ready == stale[c].shellReady \/ HasShellPrompt(ch)
      queue == FullCommands(commands[c], opts[c])
      index == stale[c].commandIndex
      sends == ready /\ index < Len(queue) /\ HasAnyPrompt(ch)
  IN  /\ stale[c].live
      /\ connected[target[c]]
      /\ stale' = [stale EXCEPT ![c] = Handler(ready, IF sends THEN index + 1 ELSE index)]
      /\ written' = [written EXCEPT ![c]["main"] =
           IF sends THEN StaleWrite(c, queue[index + 1]) ELSE @]
      /\ UNCHANGED <<registered, connected, target, backedUp, commands, opts, pc, phase,
                     commandIndex, shellReady, timerArmed, output, outcome, caught, result,
                     cfAfterCommit, cutMid>>
      /\ UNCHANGED <<cfgVars, connVars>>

\* the 'close' event of that stream (shell:256-259): resolve is a no-op
StaleClose(c) ==
  /\ stale[c].live
  /\ stale' = [stale EXCEPT ![c] = NoHandler]
  /\ UNCHANGED <<execVars, cfgVars, connVars>>

\* One call with a one-statement batch, the device free to answer anything
\* or nothing.  What the code schedules by itself happens: the handler and
\* its storage awaits run, and an armed timer fires (setTimeout,
\* VYOS_COMMAND_TIMEOUT) unless it is cleared first.
InitLive ==
  /\ InitShape
  /\ OneDevice
  /\ CfgIdle
  /\ ConnIdle
  /\ commands = [c \in Calls |-> <<"s1">>]
  /\ \E o \in Options : opts = [c \in Calls |-> o]

NextLive ==
  \/ Step(1)
  \/ \E ch \in Chunks : StaleData(1, ch)
  \/ StaleClose(1)
  \/ Disconnect("A")
  \/ ConnectionLost("A")

SpecLive ==
  /\ InitLive
  /\ [][NextLive]_vars
  /\ WF_vars(HandlerStart(1))
  /\ WF_vars(\E b \in {"stored", "skipped", "failed"} : BackupDone(1, b))
  /\ WF_vars(TimerExpire(1))

\* ------------------------------------------- SSH_CONNECT and DEVICE_TEST
\* SSH_CONNECT for device target[k] (ipc-handlers:157-174), from the
\* invocation through the awaits on the stores to activeConnections.get:
\* a missing profile or credential throws, a registered client is reused as
\* it is, otherwise a new client is created and connect() is awaited.
ConnectLookup(k, found) ==
  /\ connpc[k] = "idle"
  /\ connpc' = [connpc EXCEPT ![k] =
       IF ~found THEN "done" ELSE IF registered[target[k]] THEN "updating" ELSE "connecting"]
  /\ connRes' = [connRes EXCEPT ![k] = IF found THEN @ ELSE "failed"]
  /\ UNCHANGED <<orphans, testpc, attempt, testRes, status>>
  /\ UNCHANGED <<execVars, cfgVars, stale>>

\* client.connect() settles (SSHClient.connect:77-98): on 'ready' the
\* handler goes on with activeConnections.set (ipc-handlers:185), which
\* replaces whatever client the map holds for the device; on 'error' the
\* handler's catch returns the failure.
ConnectSettled(k, ready) ==
  LET d == target[k] IN
  /\ connpc[k] = "connecting"
  /\ IF ready
     THEN /\ registered' = [registered EXCEPT ![d] = TRUE]
          /\ connected' = [connected EXCEPT ![d] = TRUE]
          /\ orphans' = [orphans EXCEPT ![d] =
               IF registered[d] /\ connected[d] THEN @ + 1 ELSE @]
          /\ connpc' = [connpc EXCEPT ![k] = "updating"]
          /\ UNCHANGED connRes
     ELSE /\ connpc' = [connpc EXCEPT ![k] = "done"]
          /\ connRes' = [connRes EXCEPT ![k] = "failed"]
          /\ UNCHANGED <<registered, connected, orphans>>
  /\ UNCHANGED <<testpc, attempt, testRes, status>>
  /\ UNCHANGED <<target, backedUp, commands, opts, pc, phase, commandIndex, shellReady,
                 timerArmed, output, outcome, written, caught, result, cfAfterCommit, cutMid>>
  /\ UNCHANGED <<cfgVars, stale>>

\* updateLastConnected has settled (ipc-handlers:188-190, DeviceStorage:290-307)
ConnectUpdated(k) ==
  /\ connpc[k] = "updating"
  /\ connpc' = [connpc EXCEPT ![k] = "done"]
  /\ connRes' = [connRes EXCEPT ![k] = "success"]
  /\ status' = [status EXCEPT ![target[k]] = "online"]
  /\ UNCHANGED <<orphans, testpc, attempt, testRes>>
  /\ UNCHANGED <<execVars, cfgVars, stale>>

\* DEVICE_TEST for device target[1] (ipc-handlers:113-133), from the
\* invocation through the awaits on the stores to the first connect() of
\* SSHClient.testConnection on a client of its own.
TestLookup(found) ==
  /\ testpc = "idle"
  /\ testpc' = IF found THEN "connecting" ELSE "done"
  /\ attempt' = IF found THEN 1 ELSE 0
  /\ testRes' = IF found THEN testRes ELSE "error"
  /\ UNCHANGED <<connpc, connRes, orphans, status>>
  /\ UNCHANGED <<execVars, cfgVars, stale>>

\* a retry loop that gives up after the first failure
GivesUpAtOnce(made) == TRUE

\* testConnection:280: attempt === SSH_MAX_RETRIES - 1, attempt counting from 0
GivesUp(made) == made - 1 = SSH_MAX_RETRIES - 1

\* One connect() of SSHClient.testConnection settles (testConnection:274-289).
TestConnectSettled(ready) ==
  /\ testpc = "connecting"
  /\ IF ready
     THEN testpc' = "probing" /\ UNCHANGED testRes
     ELSE IF GivesUp(attempt)
          THEN testpc' = "storing" /\ testRes' = "unreachable"
          ELSE testpc' = "backoff" /\ UNCHANGED testRes
  /\ UNCHANGED <<connpc, connRes, orphans, attempt, status>>
  /\ UNCHANGED <<execVars, cfgVars, stale>>

\* the backoff sleep is over (testConnection:288-289), next connect()
TestBackoffDone ==
  /\ testpc = "backoff"
  /\ testpc' = "connecting"
  /\ attempt' = attempt + 1
  /\ UNCHANGED <<connpc, connRes, orphans, testRes, status>>
  /\ UNCHANGED <<execVars, cfgVars, stale>>

\* VyOSClient.testConnection:647-665: the two exec calls returned or threw
TestProbed(ok) ==
  /\ testpc = "probing"
  /\ testpc' = "storing"
  /\ testRes' = IF ok THEN "success" ELSE "probeFailed"
  /\ UNCHANGED <<connpc, connRes, orphans, attempt, status>>
  /\ UNCHANGED <<execVars, cfgVars, stale>>

\* ipc-handlers:137-146: updateLastConnected / updateDeviceStatus has
\* settled, the test client is disconnected, the response is returned
TestStored ==
  /\ testpc = "storing"
  /\ testpc' = "done"
  /\ status' = [status EXCEPT ![target[1]] = IF testRes = "success" THEN "online" ELSE "offline"]
  /\ UNCHANGED <<connpc, connRes, orphans, attempt, testRes>>
  /\ UNCHANGED <<execVars, cfgVars, stale>>

\* Two SSH_CONNECT calls and one DEVICE_TEST for a device that was
\* connected before, with SSH_DISCONNECT / DEVICE_DELETE and the loss of the
\* connection.  An awaited connect() settles ('ready', 'error', at the
\* latest the readyTimeout of SSH_CONNECTION_TIMEOUT), a sleep ends, exec
\* has its own timer and the store calls return.
InitConn ==
  /\ InitShape
  /\ OneDevice
  /\ CfgIdle
  /\ ConnIdle
  /\ commands = [c \in Calls |-> <<>>]
  /\ opts = [c \in Calls |-> [commit |-> FALSE, save |-> FALSE]]

NextConn ==
  \/ \E k \in Calls, found \in BOOLEAN : ConnectLookup(k, found)
  \/ \E k \in Calls, ready \in BOOLEAN : ConnectSettled(k, ready)
  \/ \E k \in Calls : ConnectUpdated(k)
  \/ \E found \in BOOLEAN : TestLookup(found)
  \/ \E ready \in BOOLEAN : TestConnectSettled(ready)
  \/ TestBackoffDone
  \/ \E ok \in BOOLEAN : TestProbed(ok)
  \/ TestStored
  \/ Disconnect("A")
  \/ ConnectionLost("A")

SpecConn ==
  /\ InitConn
  /\ [][NextConn]_vars
  /\ WF_vars(\E ready \in BOOLEAN : TestConnectSettled(ready))
  /\ WF_vars(TestBackoffDone)
  /\ WF_vars(\E ok \in BOOLEAN : TestProbed(ok))
  /\ WF_vars(TestStored)

\* ================================================= builder and parser
\* A string is a sequence of symbols: the characters the sanitizer and the
\* tokenizer test for, and words (runs of other characters) taken whole.
SP == " "
SQ == "'"
DQ == "\""
BS == "\\"
TAB == "\t"
NL == "\n"

\* longest value handed to the sanitizer, in symbols
MaxLen == 2

\* most addresses of one family on an interface
MaxAddrs == 2

Alphabet == {SP, SQ, DQ, BS, TAB, NL, "a"}

Values == UNION {[1..n -> Alphabet] : n \in 0..MaxLen}

\* String.prototype.includes for one character
Includes(value, ch) == \E i \in DOMAIN value : value[i] = ch

\* value.replace(/'/g, "\\'")
RECURSIVE EscapeQuotes(_)
EscapeQuotes(value) ==
  IF value = <<>> THEN <<>>
  ELSE (IF Head(value) = SQ THEN <<BS, SQ>> ELSE <<Head(value)>>) \o EscapeQuotes(Tail(value))

\* sanitizeConfigValue (validators)
sanitizeConfigValue(value) ==
  IF Includes(value, SP) \/ Includes(value, SQ)
  THEN <<SQ>> \o EscapeQuotes(value) \o <<SQ>>
  ELSE value

\* a template literal `${a} ${b} ...`: the parts separated by single spaces
RECURSIVE Spaced(_)
Spaced(parts) ==
  IF parts = <<>> THEN <<>>
  ELSE IF Len(parts) = 1 THEN parts[1]
  ELSE parts[1] \o <<SP>> \o Spaced(Tail(parts))

\* numbers that occur in the models, and their decimal text (`${n}`)
Numbers == {1, 10, 1500}
NumStr(n) == <<ToString(n)>>

\* parseInt(text, 10); -1 stands for NaN
parseInt(text) ==
  IF \E n \in Numbers : NumStr(n) = text
  THEN CHOOSE n \in Numbers : NumStr(n) = text
  ELSE -1

\* a field the caller left out (undefined), and its text in a template literal
Missing == <<"<undefined>">>
Interpolate(v) == IF v = Missing THEN <<"undefined">> ELSE v

\* flatten a sequence of sequences
RECURSIVE Flatten(_)
Flatten(ss) == IF ss = <<>> THEN <<>> ELSE Head(ss) \o Flatten(Tail(ss))

\* commands.push(stmt) under `if (cond)`
Opt(cond, stmt) == IF cond THEN <<stmt>> ELSE <<>>

SetStmt(basePath, parts) == Spaced(<<<<"set">>, basePath>> \o parts)

\* CommandBuilder.buildInterfaceCommands; the models are of type ethernet,
\* for which the vlan, bond and bridge blocks are skipped
buildInterfaceCommands(iface) ==
  LET basePath == Spaced(<<<<"interfaces">>, Interpolate(iface.type), Interpolate(iface.name)>>)
  IN  Opt(iface.description # <<>>,
          SetStmt(basePath, <<<<"description">>, sanitizeConfigValue(iface.description)>>))
      \o Opt(iface.mtu # 0, SetStmt(basePath, <<<<"mtu">>, NumStr(iface.mtu)>>))
      \o Opt(iface.mac # <<>>, SetStmt(basePath, <<<<"mac">>, iface.mac>>))
      \o [i \in 1..Len(iface.ipv4) |->
            SetStmt(basePath, <<<<"address">>, sanitizeConfigValue(iface.ipv4[i])>>)]
      \o [i \in 1..Len(iface.ipv6) |->
            SetStmt(basePath, <<<<"address">>, sanitizeConfigValue(iface.ipv6[i])>>)]
      \o Opt(iface.dhcp, SetStmt(basePath, <<<<"address">>, <<"dhcp">>>>))
      \o Opt(iface.dhcpv6, SetStmt(basePath, <<<<"address">>, <<"dhcpv6">>>>))
      \o (IF iface.enabled
          THEN <<Spaced(<<<<"delete">>, basePath, <<"disable">>>>)>>
          ELSE <<SetStmt(basePath, <<<<"disable">>>>)>>)

\* iface.addresses.ipv4 is read first (part_002:44): it throws when the
\* caller left addresses out (ipv4 and ipv6 both Missing)
buildInterfaceThrows(iface) == iface.ipv4 = Missing

\* CommandBuilder.buildStaticRouteCommands
buildStaticRouteCommands(route) ==
  LET basePath == Spaced(<<<<"protocols">>, <<"static">>, <<"route">>, route.network>>)
      hopPath == Spaced(<<basePath, <<"next-hop">>, route.nextHop>>)
      ifPath == Spaced(<<basePath, <<"interface">>, route.interface>>)
  IN  (IF route.nextHop # <<>>
       THEN <<Spaced(<<<<"set">>, hopPath>>)>>
            \o Opt(route.distance # 0, SetStmt(hopPath, <<<<"distance">>, NumStr(route.distance)>>))
       ELSE IF route.interface # <<>>
       THEN <<Spaced(<<<<"set">>, ifPath>>)>>
            \o Opt(route.distance # 0, SetStmt(ifPath, <<<<"distance">>, NumStr(route.distance)>>))
       ELSE <<>>)
      \o Opt(route.description # <<>>,
             SetStmt(basePath, <<<<"description">>, sanitizeConfigValue(route.description)>>))

\* CommandBuilder.buildFirewallRuleCommands; the rules carry no address
\* groups and no state match
buildFirewallRuleCommands(rulesetName, rule) ==
  LET basePath == Spaced(<<<<"firewall">>, <<"name">>, rulesetName, <<"rule">>, NumStr(rule.number)>>)
  IN  <<SetStmt(basePath, <<<<"action">>, rule.action>>)>>
      \o Opt(rule.description # <<>>,
             SetStmt(basePath, <<<<"description">>, sanitizeConfigValue(rule.description)>>))
      \o Opt(rule.protocol # <<>>, SetStmt(basePath, <<<<"protocol">>, rule.protocol>>))
      \o Opt(rule.srcAddress # <<>>, SetStmt(basePath, <<<<"source">>, <<"address">>, rule.srcAddress>>))
      \o Opt(rule.srcPort # <<>>, SetStmt(basePath, <<<<"source">>, <<"port">>, rule.srcPort>>))
      \o Opt(rule.dstAddress # <<>>, SetStmt(basePath, <<<<"destination">>, <<"address">>, rule.dstAddress>>))
      \o Opt(rule.dstPort # <<>>, SetStmt(basePath, <<<<"destination">>, <<"port">>, rule.dstPort>>))
      \o Opt(rule.log, SetStmt(basePath, <<<<"log">>, <<"enable">>>>))
      \o Opt(rule.disabled, SetStmt(basePath, <<<<"disable">>>>))

\* CommandBuilder.buildNATRuleCommands
buildNATRuleCommands(rule) ==
  LET basePath == Spaced(<<<<"nat">>, rule.type, <<"rule">>, NumStr(rule.number)>>)
  IN  Opt(rule.description # <<>>,
          SetStmt(basePath, <<<<"description">>, sanitizeConfigValue(rule.description)>>))
      \o Opt(rule.type = <<"source">> /\ rule.outboundInterface # <<>>,
             SetStmt(basePath, <<<<"outbound-interface">>, rule.outboundInterface>>))
      \o Opt(rule.type = <<"destination">> /\ rule.inboundInterface # <<>>,
             SetStmt(basePath, <<<<"inbound-interface">>, rule.inboundInterface>>))
      \o Opt(rule.protocol # <<>>, SetStmt(basePath, <<<<"protocol">>, rule.protocol>>))
      \o Opt(rule.srcAddress # <<>>, SetStmt(basePath, <<<<"source">>, <<"address">>, rule.srcAddress>>))
      \o Opt(rule.srcPort # <<>>, SetStmt(basePath, <<<<"source">>, <<"port">>, rule.srcPort>>))
      \o Opt(rule.dstAddress # <<>>, SetStmt(basePath, <<<<"destination">>, <<"address">>, rule.dstAddress>>))
      \o Opt(rule.dstPort # <<>>, SetStmt(basePath, <<<<"destination">>, <<"port">>, rule.dstPort>>))
      \o Opt(rule.transAddress # <<>>, SetStmt(basePath, <<<<"translation">>, <<"address">>, rule.transAddress>>))
      \o Opt(rule.transPort # <<>>, SetStmt(basePath, <<<<"translation">>, <<"port">>, rule.transPort>>))
      \o Opt(rule.disabled, SetStmt(basePath, <<<<"disable">>>>))

\* CommandBuilder.buildIPSecCommands
buildIPSecCommands(site) ==
  LET ikeBasePath == Spaced(<<<<"vpn">>, <<"ipsec">>, <<"ike-group">>, site.ikeGroup.name>>)
      espBasePath == Spaced(<<<<"vpn">>, <<"ipsec">>, <<"esp-group">>, site.espGroup.name>>)
      peerPath == Spaced(<<<<"vpn">>, <<"ipsec">>, <<"site-to-site">>, <<"peer">>, site.remoteAddress>>)
      ikeProposal(index) ==
        LET propPath == Spaced(<<ikeBasePath, <<"proposal">>, NumStr(index)>>)
            proposal == site.ikeGroup.proposal[index]
        IN  <<SetStmt(propPath, <<<<"encryption">>, proposal.encryption>>),
              SetStmt(propPath, <<<<"hash">>, proposal.hash>>),
              SetStmt(propPath, <<<<"dh-group">>, proposal.dhGroup>>)>>
      espProposal(index) ==
        LET propPath == Spaced(<<espBasePath, <<"proposal">>, NumStr(index)>>)
            proposal == site.espGroup.proposal[index]
        IN  <<SetStmt(propPath, <<<<"encryption">>, proposal.encryption>>),
              SetStmt(propPath, <<<<"hash">>, proposal.hash>>)>>
      tunnelStmts(i) ==
        LET tunnel == site.tunnels[i]
            tunnelPath == Spaced(<<peerPath, <<"tunnel">>, NumStr(tunnel.id)>>)
        IN  <<SetStmt(tunnelPath, <<<<"local">>, <<"prefix">>, tunnel.localSubnet>>),
              SetStmt(tunnelPath, <<<<"remote">>, <<"prefix">>, tunnel.remoteSubnet>>),
              SetStmt(tunnelPath, <<<<"esp-group">>, site.espGroup.name>>)>>
            \o Opt(tunnel.protocol # <<>>, SetStmt(tunnelPath, <<<<"protocol">>, tunnel.protocol>>))
  IN  Flatten([i \in DOMAIN site.ikeGroup.proposal |-> ikeProposal(i)])
      \o Opt(site.ikeGroup.lifeTime # 0,
             SetStmt(ikeBasePath, <<<<"lifetime">>, NumStr(site.ikeGroup.lifeTime)>>))
      \o Flatten([i \in DOMAIN site.espGroup.proposal |-> espProposal(i)])
      \o Opt(site.espGroup.lifeTime # 0,
             SetStmt(espBasePath, <<<<"lifetime">>, NumStr(site.espGroup.lifeTime)>>))
      \o Opt(site.espGroup.pfs # <<>>, SetStmt(espBasePath, <<<<"pfs">>, site.espGroup.pfs>>))
      \o <<SetStmt(peerPath, <<<<"authentication">>, <<"mode">>, site.authentication.mode>>)>>
      \o Opt(site.authentication.mode = <<"pre-shared-secret">>
               /\ site.authentication.preSharedSecret # <<>>,
             SetStmt(peerPath, <<<<"authentication">>, <<"pre-shared-secret">>,
                                sanitizeConfigValue(site.authentication.preSharedSecret)>>))
      \o Opt(site.authentication.remoteId # <<>>,
             SetStmt(peerPath, <<<<"authentication">>, <<"remote-id">>,
                                sanitizeConfigValue(site.authentication.remoteId)>>))
      \o Opt(site.authentication.localId # <<>>,
             SetStmt(peerPath, <<<<"authentication">>, <<"local-id">>,
                                sanitizeConfigValue(site.authentication.localId)>>))
      \o <<SetStmt(peerPath, <<<<"ike-group">>, site.ikeGroup.name>>),
           SetStmt(peerPath, <<<<"local-address">>, site.localAddress>>)>>
      \o Opt(site.description # <<>>,
             SetStmt(peerPath, <<<<"description">>, sanitizeConfigValue(site.description)>>))
      \o Flatten([i \in DOMAIN site.tunnels |-> tunnelStmts(i)])

\* commands.join('\n'): the text the parser is given
RECURSIVE JoinLines(_)
JoinLines(ls) ==
  IF ls = <<>> THEN <<>>
  ELSE IF Len(ls) = 1 THEN ls[1]
  ELSE ls[1] \o <<NL>> \o JoinLines(Tail(ls))

\* configText.split('\n')
RECURSIVE SplitFrom(_, _, _)
SplitFrom(text, done, current) ==
  IF text = <<>> THEN Append(done, current)
  ELSE IF Head(text) = NL THEN SplitFrom(Tail(text), Append(done, current), <<>>)
  ELSE SplitFrom(Tail(text), done, Append(current, Head(text)))

SplitLines(text) == SplitFrom(text, <<>>, <<>>)

Whitespace == {SP, TAB, NL}

\* String.prototype.trim
RECURSIVE TrimStart(_)
TrimStart(s) == IF s # <<>> /\ Head(s) \in Whitespace THEN TrimStart(Tail(s)) ELSE s

RECURSIVE TrimEnd(_)
TrimEnd(s) ==
  IF s # <<>> /\ s[Len(s)] \in Whitespace THEN TrimEnd(SubSeq(s, 1, Len(s) - 1)) ELSE s

Trim(s) == TrimEnd(TrimStart(s))

\* trimmed.startsWith('set ')
StartsWithSet(trimmed) == Len(trimmed) >= 2 /\ trimmed[1] = "set" /\ trimmed[2] = SP

\* the character loop of addToTree (ConfigParser.ts:49-66)
RECURSIVE Scan(_, _, _, _)
Scan(path, parts, current, inQuotes) ==
  IF path = <<>>
  THEN (IF current # <<>> THEN Append(parts, current) ELSE parts)
  ELSE LET char == Head(path)
       IN  IF char = SQ \/ char = DQ
           THEN Scan(Tail(path), parts, current, ~inQuotes)
           ELSE IF char = SP /\ ~inQuotes
           THEN (IF current # <<>>
                 THEN Scan(Tail(path), Append(parts, current), <<>>, inQuotes)
                 ELSE Scan(Tail(path), parts, current, inQuotes))
           ELSE Scan(Tail(path), parts, Append(current, char), inQuotes)

\* a tokenizer that splits at every space
PathPartsIgnoringQuotes(path) == Scan(SelectSeq(path, LAMBDA ch : ch \notin {SQ, DQ}), <<>>, <<>>, FALSE)

PathParts(path) == Scan(path, <<>>, <<>>, FALSE)

\* The tree: one entry per property of a nested object, in insertion order;
\* path is the key path from the root, leaf tells the value is `true`
\* and not an object.
Has(t, p) == \E i \in DOMAIN t : t[i].path = p

IsLeaf(t, p) == \E i \in DOMAIN t : t[i].path = p /\ t[i].leaf

IsProperPrefix(p, q) == Len(p) < Len(q) /\ SubSeq(q, 1, Len(p)) = p

\* the walk of addToTree (ConfigParser.ts:69-76): at is what `node` holds
\* before step i.  Assigning a property on the primitive `true` throws in
\* strict code and does nothing in sloppy code; reading a property of
\* undefined throws in both.
RECURSIVE Descend(_, _, _, _, _)
Descend(t, parts, i, at, st) ==
  IF i > Len(parts) - 1
  THEN [tree |-> t, node |-> at, threw |-> FALSE]
  ELSE LET p == SubSeq(parts, 1, i)
       IN  CASE at = "object" ->
                  IF ~Has(t, p)
                  THEN Descend(Append(t, [path |-> p, leaf |-> FALSE]), parts, i + 1, "object", st)
                  ELSE Descend(t, parts, i + 1, IF IsLeaf(t, p) THEN "true" ELSE "object", st)
             [] at = "true" ->
                  IF st
                  THEN [tree |-> t, node |-> at, threw |-> TRUE]
                  ELSE Descend(t, parts, i + 1, "undefined", st)
             [] OTHER -> [tree |-> t, node |-> at, threw |-> TRUE]

\* node[lastPart] = true (ConfigParser.ts:79-82): an existing property keeps
\* its place and loses the object it held
SetLeaf(t, p) ==
  IF Has(t, p)
  THEN SelectSeq([i \in DOMAIN t |-> IF t[i].path = p THEN [path |-> p, leaf |-> TRUE] ELSE t[i]],
                 LAMBDA e : ~IsProperPrefix(p, e.path))
  ELSE Append(t, [path |-> p, leaf |-> TRUE])

\* ConfigParser.addToTree
addToTree(t, path, st) ==
  LET parts == PathParts(path)
      walk == Descend(t, parts, 1, "object", st)
      lastPath == IF parts = <<>> THEN <<<<"undefined">>>> ELSE parts
  IN  IF walk.threw THEN [tree |-> t, threw |-> TRUE]
      ELSE IF walk.node = "object" THEN [tree |-> SetLeaf(walk.tree, lastPath), threw |-> FALSE]
      ELSE [tree |-> walk.tree, threw |-> FALSE]

\* ascending sequence of a set of numbers
RECURSIVE Ascending(_)
Ascending(S) ==
  IF S = {} THEN <<>>
  ELSE LET m == CHOOSE x \in S : \A y \in S : x <= y
       IN  <<m>> \o Ascending(S \ {m})

\* Object.keys of the node at p: integer keys ascending, then the other
\* keys in insertion order; empty for `true` and for a missing node
Keys(t, p) ==
  LET own == SelectSeq(t, LAMBDA e : Len(e.path) = Len(p) + 1 /\ IsProperPrefix(p, e.path))
      keys == [i \in DOMAIN own |-> own[i].path[Len(p) + 1]]
      ints == {parseInt(keys[i]) : i \in DOMAIN keys} \ {-1}
      sorted == Ascending(ints)
  IN  [i \in DOMAIN sorted |-> NumStr(sorted[i])]
      \o SelectSeq(keys, LAMBDA k : parseInt(k) = -1)

\* Object.keys(node)[0], undefined read as the empty string
FirstKey(t, p) == IF Keys(t, p) = <<>> THEN <<>> ELSE Keys(t, p)[1]

\* words that contain a colon
ColonWords == {"fe80::1/64", "aa:bb"}

IncludesColon(s) == \E i \in DOMAIN s : s[i] \in ColonWords

\* ConfigParser.parseInterface for the ethernet type; an absent optional
\* field reads <<>> (0 for mtu)
parseInterface(t, name, type, p) ==
  LET at(k) == Append(p, <<k>>)
      addrs == Keys(t, at("address"))
  IN  [name |-> name,
       type |-> type,
       enabled |-> ~Has(t, at("disable")),
       description |-> IF Has(t, at("description")) THEN FirstKey(t, at("description")) ELSE <<>>,
       mtu |-> IF Has(t, at("mtu")) THEN parseInt(FirstKey(t, at("mtu"))) ELSE 0,
       mac |-> IF Has(t, at("mac")) THEN FirstKey(t, at("mac")) ELSE <<>>,
       ipv4 |-> SelectSeq(addrs, LAMBDA a : a # <<"dhcp">> /\ a # <<"dhcpv6">> /\ ~IncludesColon(a)),
       ipv6 |-> SelectSeq(addrs, LAMBDA a : a # <<"dhcp">> /\ a # <<"dhcpv6">> /\ IncludesColon(a)),
       dhcp |-> \E i \in DOMAIN addrs : addrs[i] = <<"dhcp">>,
       dhcpv6 |-> \E i \in DOMAIN addrs : addrs[i] = <<"dhcpv6">>]

\* ConfigParser.parseInterfaces
parseInterfaces(t) ==
  LET types == Keys(t, <<<<"interfaces">>>>)
      ofType(type) ==
        LET p == <<<<"interfaces">>, type>>
            names == Keys(t, p)
        IN  [i \in DOMAIN names |-> parseInterface(t, names[i], type, Append(p, names[i]))]
  IN  Flatten([i \in DOMAIN types |-> ofType(types[i])])

\* ConfigParser.parseStaticRoutes
parseStaticRoutes(t) ==
  LET base == <<<<"protocols">>, <<"static">>, <<"route">>>>
      networks == Keys(t, base)
      route(network) ==
        LET p == Append(base, network)
            hops == Append(p, <<"next-hop">>)
            ifs == Append(p, <<"interface">>)
            hopDist == Append(Append(hops, FirstKey(t, hops)), <<"distance">>)
            ifDist == Append(Append(ifs, FirstKey(t, ifs)), <<"distance">>)
        IN  [network |-> network,
             description |-> IF Has(t, Append(p, <<"description">>))
                             THEN FirstKey(t, Append(p, <<"description">>)) ELSE <<>>,
             nextHop |-> FirstKey(t, hops),
             interface |-> FirstKey(t, ifs),
             distance |-> IF Keys(t, ifs) # <<>> /\ Has(t, ifDist) THEN parseInt(FirstKey(t, ifDist))
                          ELSE IF Keys(t, hops) # <<>> /\ Has(t, hopDist) THEN parseInt(FirstKey(t, hopDist))
                          ELSE 0]
  IN  [i \in DOMAIN networks |-> route(networks[i])]

\* the key path of a list of words
Path(words) == [i \in DOMAIN words |-> <<words[i]>>]

\* what the node at p reads as; the root is an object
NodeAt(t, p) ==
  IF p = <<>> \/ (Has(t, p) /\ ~IsLeaf(t, p)) THEN "object"
  ELSE IF Has(t, p) THEN "true"
  ELSE "undefined"

\* `node.key` with no guard: it throws when node is undefined
OptDotUnguarded(t, p, key) ==
  IF NodeAt(t, p) = "undefined" THEN "TypeError" ELSE NodeAt(t, Append(p, <<key>>))

\* `node?.key`, node being the node at p: undefined when node is undefined
OptDot(t, p, key) ==
  IF NodeAt(t, p) = "undefined" THEN "undefined" ELSE NodeAt(t, Append(p, <<key>>))

\* `node?.k1?.k2...`
RECURSIVE OptChain(_, _, _)
OptChain(t, p, keys) ==
  IF keys = <<>> THEN NodeAt(t, p)
  ELSE IF OptDot(t, p, Head(keys)) = "TypeError" THEN "TypeError"
  ELSE OptChain(t, Append(p, <<Head(keys)>>), Tail(keys))

\* Object.keys(config.key)[0] of the node at p
KeyAt(t, p, key) == FirstKey(t, Append(p, <<key>>))

\* ConfigParser.parseFirewallRule; source and destination are read as
\* their address and port, the state match is not in the texts
parseFirewallRule(t, number, p) ==
  [number |-> number,
   action |-> IF KeyAt(t, p, "action") = <<>> THEN <<"drop">> ELSE KeyAt(t, p, "action"),
   description |-> KeyAt(t, p, "description"),
   protocol |-> KeyAt(t, p, "protocol"),
   srcAddress |-> KeyAt(t, Append(p, <<"source">>), "address"),
   srcPort |-> KeyAt(t, Append(p, <<"source">>), "port"),
   dstAddress |-> KeyAt(t, Append(p, <<"destination">>), "address"),
   dstPort |-> KeyAt(t, Append(p, <<"destination">>), "port"),
   log |-> Has(t, Append(p, <<"log">>)),
   disabled |-> Has(t, Append(p, <<"disable">>))]

\* ConfigParser.parseFirewallRulesets
parseFirewallRulesets(t) ==
  LET base == Path(<<"firewall", "name">>)
      names == Keys(t, base)
      ruleset(name) ==
        LET p == Append(base, name)
            numbers == Keys(t, Append(p, <<"rule">>))
        IN  [name |-> name,
             defaultAction |-> IF KeyAt(t, p, "default-action") = <<>> THEN <<"drop">>
                               ELSE KeyAt(t, p, "default-action"),
             enableDefaultLog |-> Has(t, Append(p, <<"enable-default-log">>)),
             description |-> KeyAt(t, p, "description"),
             rules |-> [i \in DOMAIN numbers |->
                          parseFirewallRule(t, parseInt(numbers[i]),
                                            Append(Append(p, <<"rule">>), numbers[i]))]]
  IN  [i \in DOMAIN names |-> ruleset(names[i])]

\* ConfigParser.parseFirewallZones
parseFirewallZones(t) ==
  LET base == Path(<<"zone-policy", "zone">>)
      names == Keys(t, base)
      zone(name) ==
        LET p == Append(base, name)
            fromZones == Keys(t, Append(p, <<"from">>))
            fromPath(z) == Append(Append(Append(p, <<"from">>), z), <<"firewall">>)
        IN  [name |-> name,
             defaultAction |-> IF KeyAt(t, p, "default-action") = <<>> THEN <<"drop">>
                               ELSE KeyAt(t, p, "default-action"),
             interfaces |-> Keys(t, Append(p, <<"interface">>)),
             description |-> KeyAt(t, p, "description"),
             from |-> [i \in DOMAIN fromZones |->
                         [zone |-> fromZones[i],
                          name |-> KeyAt(t, fromPath(fromZones[i]), "name"),
                          ipv6Name |-> KeyAt(t, fromPath(fromZones[i]), "ipv6-name")]]]
  IN  [i \in DOMAIN names |-> zone(names[i])]

\* ConfigParser.parseNATRule; source, destination and translation are read
\* as their address and port
parseNATRule(t, type, number, p) ==
  [type |-> <<type>>,
   number |-> number,
   description |-> KeyAt(t, p, "description"),
   outboundInterface |-> KeyAt(t, p, "outbound-interface"),
   inboundInterface |-> KeyAt(t, p, "inbound-interface"),
   protocol |-> KeyAt(t, p, "protocol"),
   srcAddress |-> KeyAt(t, Append(p, <<"source">>), "address"),
   srcPort |-> KeyAt(t, Append(p, <<"source">>), "port"),
   dstAddress |-> KeyAt(t, Append(p, <<"destination">>), "address"),
   dstPort |-> KeyAt(t, Append(p, <<"destination">>), "port"),
   transAddress |-> KeyAt(t, Append(p, <<"translation">>), "address"),
   transPort |-> KeyAt(t, Append(p, <<"translation">>), "port"),
   disabled |-> Has(t, Append(p, <<"disable">>))]

\* ConfigParser.parseNATRules
parseNATRules(t) ==
  LET rulesOf(type) ==
        LET p == Path(<<"nat", type, "rule">>)
            numbers == Keys(t, p)
        IN  [i \in DOMAIN numbers |->
               parseNATRule(t, type, parseInt(numbers[i]), Append(p, numbers[i]))]
  IN  [source |-> rulesOf("source"), destination |-> rulesOf("destination")]

\* ConfigParser.parseIPSecSites: the loop over the peers pushes nothing
parseIPSecSites(t) == <<>>

\* ConfigParser.parseSystemConfig
parseSystemConfig(t) ==
  LET p == Path(<<"system">>)
  IN  [hostName |-> KeyAt(t, p, "host-name"),
       domainName |-> KeyAt(t, p, "domain-name"),
       timeZone |-> KeyAt(t, p, "time-zone"),
       nameServer |-> Keys(t, Append(p, <<"name-server">>)),
       ntpServers |-> Keys(t, Path(<<"system", "ntp", "server">>)),
       users |-> Keys(t, Path(<<"system", "login", "user">>))]

TypedParsers ==
  {"parseInterfaces", "parseStaticRoutes", "parseFirewallZones", "parseFirewallRulesets",
   "parseNATRules", "parseIPSecSites", "parseSystemConfig"}

\* what the typed parser returns for the tree
ResultOf(parser, t) ==
  CASE parser = "parseInterfaces" -> parseInterfaces(t)
    [] parser = "parseStaticRoutes" -> parseStaticRoutes(t)
    [] parser = "parseFirewallZones" -> parseFirewallZones(t)
    [] parser = "parseFirewallRulesets" -> parseFirewallRulesets(t)
    [] parser = "parseNATRules" -> parseNATRules(t)
    [] parser = "parseIPSecSites" -> parseIPSecSites(t)
    [] OTHER -> parseSystemConfig(t)

\* the reads of the typed parser that no try block encloses: the test at
\* its head, and the tests of the NAT and system sections
GuardReads(parser, t) ==
  CASE parser = "parseInterfaces" -> {NodeAt(t, Path(<<"interfaces">>))}
    [] parser = "parseStaticRoutes" -> {OptChain(t, Path(<<"protocols">>), <<"static", "route">>)}
    [] parser = "parseFirewallZones" -> {OptChain(t, Path(<<"zone-policy">>), <<"zone">>)}
    [] parser = "parseFirewallRulesets" -> {OptChain(t, Path(<<"firewall">>), <<"name">>)}
    [] parser = "parseNATRules" ->
         IF NodeAt(t, Path(<<"nat">>)) = "undefined" THEN {}
         ELSE {OptChain(t, Path(<<"nat", "source">>), <<"rule">>),
               OptChain(t, Path(<<"nat", "destination">>), <<"rule">>)}
    [] parser = "parseIPSecSites" ->
         {OptChain(t, Path(<<"vpn">>), <<"ipsec", "site-to-site", "peer">>)}
    [] OTHER ->
         IF NodeAt(t, Path(<<"system">>)) = "undefined" THEN {}
         ELSE {OptChain(t, Path(<<"system", "ntp">>), <<"server">>),
               OptChain(t, Path(<<"system", "login">>), <<"user">>)}

\* the loop of ConfigParser.parse over the lines from the i-th on
RECURSIVE parseFrom(_, _, _, _)
parseFrom(ls, i, t, st) ==
  IF i > Len(ls) THEN [tree |-> t, threw |-> FALSE]
  ELSE LET trimmed == Trim(ls[i])
           added == addToTree(t, SubSeq(trimmed, 3, Len(trimmed)), st)
       IN  IF trimmed = <<>> \/ ~StartsWithSet(trimmed) THEN parseFrom(ls, i + 1, t, st)
           ELSE IF added.threw THEN [tree |-> t, threw |-> TRUE]
           ELSE parseFrom(ls, i + 1, added.tree, st)

\* ConfigParser.parse
parse(configText, st) == parseFrom(SplitLines(configText), 1, <<>>, st)

\* ---------------------------------------------- inputs of a builder run
Descriptions == {<<>>, <<"LAN">>, <<"LAN", SP, "Interface">>, <<"it", SQ, "s">>}

Addrs4 == {"192.168.1.1/24", "10.0.0.1/8", "172.16.0.1/16"}

\* lists of distinct one-word strings over S, at most n long
ListsOf(S, n) ==
  {s \in UNION {[1..k -> {<<w>> : w \in S}] : k \in 0..n} :
     \A i, j \in DOMAIN s : i # j => s[i] # s[j]}

\* NetworkInterface (types)
Interfaces ==
  [name : {<<"eth1">>}, type : {<<"ethernet">>}, description : Descriptions,
   mtu : {0, 1500}, mac : {<<>>, <<"aa:bb">>, <<"aa", SP, "bb">>},
   ipv4 : ListsOf(Addrs4, MaxAddrs), ipv6 : ListsOf({"fe80::1/64"}, 1),
   dhcp : BOOLEAN, dhcpv6 : {FALSE}, enabled : BOOLEAN]

\* StaticRoute (types)
StaticRoutes ==
  [network : {<<"10.0.0.0/8">>}, nextHop : {<<>>, <<"192.168.1.254">>},
   interface : {<<>>, <<"eth1">>}, distance : {0, 10}, description : Descriptions]

\* FirewallRule (types), with the name of its ruleset
FirewallRules ==
  [rulesetName : {<<"WAN_IN">>}, number : {10}, action : {<<"accept">>, <<"drop">>},
   description : {<<>>, <<"LAN", SP, "Interface">>}, protocol : {<<>>, <<"tcp">>},
   srcAddress : {<<>>, <<"10.0.0.1/8">>, <<"10.0.0.1/8", SP, "x">>},
   srcPort : {<<>>}, dstAddress : {<<>>}, dstPort : {<<>>, <<"443">>},
   log : BOOLEAN, disabled : BOOLEAN]

\* NATRule (types)
NATRules ==
  [type : {<<"source">>, <<"destination">>}, number : {10},
   description : {<<>>, <<"LAN", SP, "Interface">>},
   outboundInterface : {<<>>, <<"eth1">>}, inboundInterface : {<<>>, <<"eth1">>},
   protocol : {<<>>}, srcAddress : {<<>>, <<"10.0.0.1/8">>}, srcPort : {<<>>},
   dstAddress : {<<>>}, dstPort : {<<>>},
   transAddress : {<<>>, <<"masquerade">>}, transPort : {<<>>}, disabled : BOOLEAN]

\* IPSecSite (types)
IPSecSites ==
  [description : {<<>>, <<"HQ", SP, "link">>},
   localAddress : {<<"192.0.2.1">>}, remoteAddress : {<<"198.51.100.1">>},
   authentication : [mode : {<<"pre-shared-secret">>, <<"x509">>},
                     preSharedSecret : {<<>>, <<"s3cret">>},
                     remoteId : {<<>>}, localId : {<<>>}],
   ikeGroup : [name : {<<"IKE-HQ">>},
               proposal : {<<>>, <<[encryption |-> <<"aes256">>, hash |-> <<"sha256">>,
                                    dhGroup |-> <<"14">>]>>},
               lifeTime : {0}],
   espGroup : [name : {<<"ESP-HQ">>},
               proposal : {<<[encryption |-> <<"aes256">>, hash |-> <<"sha256">>]>>},
               lifeTime : {0}, pfs : {<<>>, <<"enable">>}],
   tunnels : {<<>>, <<[id |-> 1, localSubnet |-> <<"10.0.0.0/8">>,
                       remoteSubnet |-> <<"172.16.0.0/12">>, protocol |-> <<>>]>>}]

\* models in which the caller left a required field out: the name, or the
\* whole addresses object
MalformedInterfaces ==
  {[name |-> Missing, type |-> <<"ethernet">>, description |-> <<"LAN">>,
    mtu |-> 0, mac |-> <<>>, ipv4 |-> <<<<"192.168.1.1/24">>>>, ipv6 |-> <<>>,
    dhcp |-> FALSE, dhcpv6 |-> FALSE, enabled |-> TRUE],
   [name |-> <<"eth1">>, type |-> <<"ethernet">>, description |-> <<"LAN">>,
    mtu |-> 0, mac |-> <<>>, ipv4 |-> Missing, ipv6 |-> Missing,
    dhcp |-> FALSE, dhcpv6 |-> FALSE, enabled |-> TRUE]}

\* the device prints every value between single quotes
Quoted(value) == <<SQ>> \o value \o <<SQ>>

Eth1Path == Spaced(<<<<"interfaces">>, <<"ethernet">>, <<"eth1">>>>)
DeviceDescription == SetStmt(Eth1Path, <<<<"description">>, Quoted(<<"LAN", SP, "Interface">>)>>)
DeviceAddress == SetStmt(Eth1Path, <<<<"address">>, Quoted(<<"192.168.1.1/24">>)>>)
DeviceDisable == SetStmt(Eth1Path, <<<<"disable">>>>)

\* texts the device may print for eth1: its lines in any order
DeviceConfigs ==
  {s \in UNION {[1..k -> {DeviceDescription, DeviceAddress, DeviceDisable}] : k \in 0..3} :
     \A i, j \in DOMAIN s : i # j => s[i] # s[j]}

\* lines of a configuration text
SetLine(words) == Spaced(Path(<<"set">> \o words))

RoutePath == <<"protocols", "static", "route", "10.0.0.0/8", "next-hop", "192.168.1.254">>
RouteHop == SetLine(RoutePath)
RouteBfd == SetLine(RoutePath \o <<"bfd", "profile", "x">>)
IfaceMtu == SetLine(<<"interfaces", "ethernet", "eth1", "mtu", "1500">>)
IfaceDuplex == SetLine(<<"interfaces", "ethernet", "eth1", "duplex", "auto">>)

MaxLines == 2

\* sequences of distinct lines of L, at most MaxLines long
TextsOver(L) ==
  {s \in UNION {[1..k -> L] : k \in 0..MaxLines} : \A i, j \in DOMAIN s : i # j => s[i] # s[j]}

\* Configuration texts given to parse, each made of the lines of one group:
\* a route whose lines assert a Leaf and require a Branch at the same path
\* and a line that is no set line; an interface with a tab-separated line
\* and a key no parser reads; sections that are present with nothing under
\* them; one line of each further section.
TextConfigs ==
  LET RouteDistance == SetLine(RoutePath \o <<"distance", "10">>)
      ShowInterfaces == Spaced(Path(<<"show", "interfaces">>))
      IfaceTabbed ==
        SetLine(<<"interfaces", "ethernet", "eth1">>) \o <<SP, "description", TAB, "LAN">>
      ConflictLines == {RouteHop, RouteDistance, RouteBfd, ShowInterfaces}
      InterfaceLines == {IfaceMtu, IfaceTabbed, IfaceDuplex}
      BareLines ==
        {SetLine(<<"interfaces">>), SetLine(<<"protocols", "static">>),
         SetLine(<<"zone-policy">>), SetLine(<<"firewall">>), SetLine(<<"nat">>),
         SetLine(<<"vpn", "ipsec">>), SetLine(<<"system">>)}
      SectionLines ==
        {SetLine(<<"nat", "source", "rule", "10", "translation", "address", "masquerade">>),
         SetLine(<<"firewall", "name", "WAN_IN", "rule", "10", "action", "accept">>),
         SetLine(<<"zone-policy", "zone", "LAN", "interface", "eth1">>),
         SetLine(<<"system", "name-server", "192.0.2.53">>)}
  IN  TextsOver(ConflictLines) \cup TextsOver(InterfaceLines) \cup TextsOver(BareLines)
        \cup TextsOver(SectionLines)

Kinds == {"value", "interface", "route", "fwrule", "natrule", "ipsec", "config", "text"}

InputsOf(k) ==
  CASE k = "value" -> Values
    [] k = "interface" -> Interfaces \cup MalformedInterfaces
    [] k = "route" -> StaticRoutes
    [] k = "fwrule" -> FirewallRules
    [] k = "natrule" -> NATRules
    [] k = "ipsec" -> IPSecSites
    [] k = "text" -> TextConfigs
    [] OTHER -> DeviceConfigs

InitCfg ==
  /\ InitShape
  /\ OneDevice
  /\ ConnIdle
  /\ commands = [c \in Calls |-> <<>>]
  /\ opts = [c \in Calls |-> [commit |-> FALSE, save |-> FALSE]]
  /\ \E k \in Kinds : kind = k /\ input \in InputsOf(k)
  /\ cfgpc = "input"
  /\ lines = <<>>
  /\ tree = <<>>
  /\ cursor = 1
  /\ parsed = <<>>
  /\ strict \in BOOLEAN
  /\ prev = <<>>
  /\ thrown = NoThrow

\* ------------------------------------------------ builder/parser actions
\* a builder whose commands array outlives the call
BuiltAccumulating(ls) ==
  /\ cfgpc \in {"input", "built", "rebuilt"}
  /\ prev' = lines
  /\ lines' = lines \o ls
  /\ cfgpc' = IF cfgpc = "input" THEN "built" ELSE "rebuilt"
  /\ UNCHANGED <<kind, input, tree, cursor, parsed, strict, thrown>>
  /\ UNCHANGED <<execVars, connVars, stale>>

\* A call of a build method returns ls: `const commands = []` is filled and
\* returned.  The method may be called again on the same model.
Built(ls) ==
  /\ cfgpc \in {"input", "built", "rebuilt"}
  /\ prev' = lines
  /\ lines' = ls
  /\ cfgpc' = IF cfgpc = "input" THEN "built" ELSE "rebuilt"
  /\ UNCHANGED <<kind, input, tree, cursor, parsed, strict, thrown>>
  /\ UNCHANGED <<execVars, connVars, stale>>

\* a call of a build method throws error: nothing is returned
Threw(error) ==
  /\ cfgpc = "input"
  /\ thrown' = error
  /\ cfgpc' = "buildThrew"
  /\ UNCHANGED <<kind, input, lines, tree, cursor, parsed, strict, prev>>
  /\ UNCHANGED <<execVars, connVars, stale>>

Sanitize == kind = "value" /\ Built(<<sanitizeConfigValue(input)>>)

BuildInterface ==
  /\ kind = "interface"
  /\ IF buildInterfaceThrows(input)
     THEN Threw(TypeErrorReading("ipv4"))
     ELSE Built(buildInterfaceCommands(input))

BuildStaticRoute == kind = "route" /\ Built(buildStaticRouteCommands(input))

BuildFirewallRule == kind = "fwrule" /\ Built(buildFirewallRuleCommands(input.rulesetName, input))

BuildNATRule == kind = "natrule" /\ Built(buildNATRuleCommands(input))

BuildIPSec == kind = "ipsec" /\ Built(buildIPSecCommands(input))

\* the device's text is read as it is
LoadConfig == kind \in {"config", "text"} /\ cfgpc = "input" /\ Built(input)

Parsing == kind \in {"interface", "route", "config", "text"} /\ cfgpc \in {"built", "parsing"}

ConfigLines == SplitLines(JoinLines(lines))

\* one turn of the loop of ConfigParser.parse
ParseLine ==
  /\ Parsing
  /\ cursor <= Len(ConfigLines)
  /\ LET trimmed == Trim(ConfigLines[cursor])
         added == addToTree(tree, SubSeq(trimmed, 3, Len(trimmed)), strict)
     IN  IF trimmed = <<>> \/ ~StartsWithSet(trimmed)
         THEN cfgpc' = "parsing" /\ tree' = tree
         ELSE /\ tree' = added.tree
              /\ cfgpc' = IF added.threw THEN "threw" ELSE "parsing"
  /\ cursor' = cursor + 1
  /\ UNCHANGED <<kind, input, lines, parsed, strict, prev, thrown>>
  /\ UNCHANGED <<execVars, connVars, stale>>

Parsed(models) ==
  /\ Parsing
  /\ cursor > Len(ConfigLines)
  /\ parsed' = models
  /\ cfgpc' = "parsed"
  /\ UNCHANGED <<kind, input, lines, tree, cursor, strict, prev, thrown>>
  /\ UNCHANGED <<execVars, connVars, stale>>

ParseInterfaces == kind \in {"interface", "config"} /\ Parsed(parseInterfaces(tree))

ParseStaticRoutes == kind = "route" /\ Parsed(parseStaticRoutes(tree))

\* a typed parser is called with the tree of a text
ParseTyped ==
  /\ kind = "text"
  /\ Parsing
  /\ cursor > Len(ConfigLines)
  /\ \E parser \in TypedParsers :
       IF "TypeError" \in GuardReads(parser, tree)
       THEN /\ cfgpc' = "typedThrew"
            /\ thrown' = TypeErrorReading(parser)
            /\ parsed' = parsed
       ELSE /\ cfgpc' = "parsed"
            /\ thrown' = thrown
            /\ parsed' = [parser |-> parser, value |-> ResultOf(parser, tree)]
  /\ UNCHANGED <<kind, input, lines, tree, cursor, strict, prev>>
  /\ UNCHANGED <<execVars, connVars, stale>>

NextCfg ==
  \/ Sanitize
  \/ BuildInterface
  \/ BuildStaticRoute
  \/ BuildFirewallRule
  \/ BuildNATRule
  \/ BuildIPSec
  \/ LoadConfig
  \/ ParseLine
  \/ ParseInterfaces
  \/ ParseStaticRoutes
  \/ ParseTyped

SpecCfg == InitCfg /\ [][NextCfg]_vars

\* ---------------------------------------------------------------- types
TypeOK ==
  /\ kind \in Kinds \cup {"none"}
  /\ cfgpc \in {"idle", "input", "built", "rebuilt", "buildThrew", "parsing", "threw", "parsed",
                "typedThrew"}
  /\ thrown.class \in {"none", "TypeError"}
  /\ cursor \in 0..(Len(ConfigLines) + 1)
  /\ strict \in BOOLEAN
  /\ \A i \in DOMAIN tree : tree[i].leaf \in BOOLEAN /\ tree[i].path # <<>>
  /\ registered \in [Devices -> BOOLEAN]
  /\ connected \in [Devices -> BOOLEAN]
  /\ target \in [Calls -> Devices]
  /\ backedUp \in [Calls -> BOOLEAN]
  /\ pc \in [Calls -> {"idle", "backup", "starting", "open", "ended", "done"}]
  /\ phase \in [Calls -> Phases]
  /\ \A c \in Calls : commandIndex[c] \in 0..Len(Queue(c))
  /\ output \in [Calls -> [Phases -> SUBSET Markers]]
  /\ \A c \in Calls : timerArmed[c] <=> pc[c] = "open"
  /\ \A c \in Calls : stale[c].commandIndex \in 0..Len(FullCommands(commands[c], opts[c]))
  /\ \A c \in Calls : stale[c].live => outcome[c]["main"] = "Timeout"
  /\ connpc \in [Calls -> {"idle", "connecting", "updating", "done"}]
  /\ connRes \in [Calls -> {"none", "success", "failed"}]
  /\ orphans \in [Devices -> 0..Cardinality(Calls)]
  /\ testpc \in {"idle", "connecting", "backoff", "probing", "storing", "done"}
  /\ attempt \in 0..SSH_MAX_RETRIES
  /\ testRes \in {"none", "success", "unreachable", "probeFailed", "error"}
  /\ status \in [Devices -> {"unknown", "online", "offline"}]

\* ---------------------------------------------------------------- claims
Done(c) == pc[c] = "done"

IsPrefix(s, t) == Len(s) <= Len(t) /\ s = SubSeq(t, 1, Len(s))

\* the session of call c is in its send/collect window: it has written a
\* statement and has not returned
InWindow(c) == written[c]["main"] # <<>> /\ ~Done(c)

\* C1: two execute calls for the same device never have overlapping
\* send/collect windows: while one call has written a statement and has not
\* finished, no other call has a statement on the device.
C1_NoOverlappingWindows ==
  \A a \in Calls : \A b \in Calls :
    (a # b /\ InWindow(a)) => written[b]["main"] = <<>> \/ Done(b)

RollbackRecovered(c) ==
  outcome[c]["rollback"] = "resolved" /\ ~hasCommitFailed(output[c]["rollback"])

\* C2: when the batch transcript contains an error marker and the call
\* returns the CommandError, exactly [configure, rollback 0, commit, save,
\* exit] has been written by the rollback, in that order and each once.
C2_ExactRollbackSequence ==
  \A c \in Calls :
    (/\ Done(c)
     /\ outcome[c]["main"] = "resolved"
     /\ parseErrors(output[c]["main"])
     /\ result[c].class = "VyOSCommandError"
     /\ result[c].msg = "Command execution failed")
    => written[c]["rollback"] = <<"configure", "rollback 0", "commit", "save", "exit">>

\* C3: once an error marker has appeared in the batch transcript, no further
\* statement of the batch queue is written to the channel.
C3_NoSendAfterErrorMarker ==
  [][\A c \in Calls :
       (phase[c] = "main" /\ parseErrors(output[c]["main"]))
       => written'[c]["main"] = written[c]["main"]]_vars

\* C4: a batch session that ends with a transcript free of error and
\* commit-failure markers is reported as success and no rollback statement
\* is written.
C4_CleanTranscriptSucceeds ==
  \A c \in Calls :
    (outcome[c]["main"] = "resolved" /\ output[c]["main"] = {})
    => /\ Done(c)
       /\ result[c] = Success
       /\ written[c]["rollback"] = <<>>
       /\ outcome[c]["rollback"] = "none"

C4_Witness ==
  /\ outcome[1]["main"] = "resolved"
  /\ output[1]["main"] = {}
  /\ Len(commands[1]) = 2
  /\ written[1]["main"] = FullCommands(commands[1], opts[1])
  /\ result[1] = Success

C7_SuccessMeansWholeQueue ==
  \A c \in Calls :
    (result[c] = Success /\ written[c]["main"] # <<>>)
    => written[c]["main"] =
         <<"configure">> \o commands[c]
           \o (IF opts[c].commit THEN <<"commit">> ELSE <<>>)
           \o (IF opts[c].save THEN <<"save">> ELSE <<>>)
           \o <<"exit">>

\* C8: a call whose client was disconnected after configure was written and
\* before its session closed does not report success.
C8_DisconnectNeverSucceeds ==
  \A c \in Calls : cutMid[c] => result[c] # Success

\* C9: the statements written for one batch are a prefix of
\* [configure, ...statements, commit?, save?, exit], with commit present iff
\* the commit option is set and save iff the save option is set, the caller's
\* statements in the order supplied.
C9_WrittenIsPrefixOfQueue ==
  \A c \in Calls :
    IsPrefix(written[c]["main"],
             <<"configure">> \o commands[c]
               \o (IF opts[c].commit THEN <<"commit">> ELSE <<>>)
               \o (IF opts[c].save THEN <<"save">> ELSE <<>>)
               \o <<"exit">>)

C9_Witness ==
  /\ Len(commands[1]) = 2
  /\ commands[1][1] # commands[1][2]
  /\ opts[1].commit
  /\ opts[1].save
  /\ Len(written[1]["main"]) = 6

\* C10: when the rollback transcript shows an error marker, the caller gets
\* the rollback-failed error carrying the original and the rollback cause.
C10_RollbackMarkerIsFatal ==
  \A c \in Calls :
    (/\ Done(c)
     /\ outcome[c]["rollback"] = "resolved"
     /\ output[c]["rollback"] # {})
    => /\ result[c].class = "VyOSCommandError"
       /\ result[c].msg = "Command execution failed and rollback also failed"
       /\ result[c].origMsg = caught[c].msg
       /\ result[c].rollbackMsg # "none"

\* C11: when a batch fails and the rollback transcript shows no error
\* marker, the error thrown to the caller is the error that triggered the
\* rollback, same kind and content.
C11_RecoveredErrorIsOriginal ==
  \A c \in Calls :
    (/\ Done(c)
     /\ outcome[c]["rollback"] = "resolved"
     /\ output[c]["rollback"] = {})
    => /\ result[c] = caught[c]
       /\ result[c].class \in {"SSHConnectionError", "VyOSCommandError", "VyOSCommitError"}
       /\ result[c].rollbackMsg = "none"
       /\ (result[c].class = "SSHConnectionError") <=> (outcome[c]["main"] # "resolved")
       /\ result[c].class = "SSHConnectionError" => result[c].msg = outcome[c]["main"]
       /\ result[c].class = "VyOSCommandError" => parseErrors(output[c]["main"])
       /\ result[c].class = "VyOSCommitError" =>
            (opts[c].commit /\ hasCommitFailed(output[c]["main"]))

C11_Witness ==
  /\ Done(1)
  /\ outcome[1]["rollback"] = "resolved"
  /\ output[1]["rollback"] = {}
  /\ written[1]["rollback"] = RollbackCommands
  /\ result[1].class = "VyOSCommandError"
  /\ result[1].msg = "Command execution failed"

\* C12: when the transport fails before any statement has been written, the
\* caller receives an SSHConnectionError and no rollback statement is written.
C12_TransportFailureNoRollback ==
  \A c \in Calls :
    (/\ Done(c)
     /\ outcome[c]["main"] \in {"NotConnected", "StartFailed", "Timeout", "ShellError"}
     /\ written[c]["main"] = <<>>)
    => /\ result[c].class = "SSHConnectionError"
       /\ written[c]["rollback"] = <<>>

\* C13: a CommitError is reported only when a commit-failure marker arrived
\* in output received after the commit statement was written.
C13_CommitErrorOnlyAfterCommit ==
  \A c \in Calls :
    result[c].class = "VyOSCommitError" => cfAfterCommit[c]

\* C14: every error executeWithRollback surfaces carries the full transcript
\* the batch session received.
C14_ErrorsCarryTranscript ==
  \A c \in Calls :
    (Done(c) /\ result[c].class \in {"SSHConnectionError", "VyOSCommandError", "VyOSCommitError"})
    => result[c].transcript = <<output[c]["main"]>>

\* ------------------------------------------- builder and parser claims
\* the statements have been built from the input
IsBuilt(k) ==
  /\ kind = k
  /\ cfgpc \in {"built", "rebuilt", "parsing", "threw", "parsed"}
  /\ input \notin MalformedInterfaces

\* lines contains the statement stmt
Emits(stmt) == \E i \in DOMAIN lines : lines[i] = stmt

\* basePath of the object that was built
BasePathOf ==
  CASE kind = "interface" -> Spaced(<<<<"interfaces">>, input.type, input.name>>)
    [] kind = "fwrule" ->
         Spaced(<<<<"firewall">>, <<"name">>, input.rulesetName, <<"rule">>, NumStr(input.number)>>)
    [] OTHER -> Spaced(<<<<"nat">>, input.type, <<"rule">>, NumStr(input.number)>>)

\* enable/disable state of the object that was built
EnabledOf == IF kind = "interface" THEN input.enabled ELSE ~input.disabled

\* the round trip fed the builder's statements to the parser
RoundTrip == kind \in {"interface", "route"} /\ input \notin MalformedInterfaces

\* C15: parsing the set lines the builder emits for a model yields exactly
\* that model, for every interface and every static route; the parse never
\* throws.
C15_BuildParseDuality ==
  /\ RoundTrip => cfgpc # "threw"
  /\ (RoundTrip /\ cfgpc = "parsed") => parsed = <<input>>

Eth1Model ==
  [name |-> <<"eth1">>, type |-> <<"ethernet">>, description |-> <<"LAN", SP, "Interface">>,
   mtu |-> 0, mac |-> <<>>, ipv4 |-> <<<<"192.168.1.1/24">>>>, ipv6 |-> <<>>,
   dhcp |-> FALSE, dhcpv6 |-> FALSE, enabled |-> TRUE]

\* C16: for the model interface eth1 with commit and save the full batch is
\* configure, the quoted description, the quoted address, the delete of
\* disable, commit, save, exit; every address is emitted in single quotes.
C16_Eth1BatchQuotedAddress ==
  /\ (IsBuilt("interface") /\ input = Eth1Model) =>
       FullCommands(lines, [commit |-> TRUE, save |-> TRUE])
         = <<ENTER_CONFIG, DeviceDescription, DeviceAddress,
             Spaced(<<<<"delete">>, Eth1Path, <<"disable">>>>), COMMIT, SAVE, EXIT_CONFIG>>
  /\ IsBuilt("interface") =>
       \A i \in DOMAIN input.ipv4 :
         Emits(SetStmt(BasePathOf, <<<<"address">>, Quoted(input.ipv4[i])>>))

\* C17: parsing the device's lines for eth1 gives one interface eth1 whose
\* description is LAN Interface when the quoted description line is there,
\* whose ipv4 list is [192.168.1.1/24] when the quoted address line is
\* there, and which is enabled exactly when there is no disable line.
C17_DeviceLinesReconstructEth1 ==
  /\ kind = "config" => cfgpc # "threw"
  /\ (kind = "config" /\ cfgpc = "parsed") =>
       /\ Len(parsed) = (IF input = <<>> THEN 0 ELSE 1)
       /\ \A i \in DOMAIN parsed :
            /\ parsed[i].name = <<"eth1">>
            /\ parsed[i].type = <<"ethernet">>
            /\ parsed[i].enabled = ~Emits(DeviceDisable)
            /\ parsed[i].description =
                 (IF Emits(DeviceDescription) THEN <<"LAN", SP, "Interface">> ELSE <<>>)
            /\ parsed[i].ipv4 =
                 (IF Emits(DeviceAddress) THEN <<<<"192.168.1.1/24">>>> ELSE <<>>)
            /\ parsed[i].ipv6 = <<>>

C17_Witness ==
  /\ kind = "config"
  /\ cfgpc = "parsed"
  /\ input = <<DeviceDescription, DeviceAddress>>
  /\ parsed = <<Eth1Model>>

\* C18: the sanitizer wraps a value in single quotes, with a backslash
\* before every single quote, exactly when the value holds a space, a tab,
\* a newline or a single quote, and returns it unchanged otherwise.
C18_QuoteOnAnyWhitespace ==
  IsBuilt("value") =>
    lines = <<IF \E i \in DOMAIN input : input[i] \in {SP, TAB, NL, SQ}
              THEN <<SQ>> \o EscapeQuotes(input) \o <<SQ>>
              ELSE input>>

\* C19: every user literal that ends a set statement is emitted as
\* quote(literal): the description, MAC and addresses of an interface, the
\* description and addresses of a firewall rule and of a NAT rule.
C19_UserLiteralsSanitized ==
  /\ IsBuilt("interface") =>
       /\ input.description # <<>> =>
            Emits(SetStmt(BasePathOf, <<<<"description">>, sanitizeConfigValue(input.description)>>))
       /\ input.mac # <<>> =>
            Emits(SetStmt(BasePathOf, <<<<"mac">>, sanitizeConfigValue(input.mac)>>))
       /\ \A i \in DOMAIN input.ipv4 :
            Emits(SetStmt(BasePathOf, <<<<"address">>, sanitizeConfigValue(input.ipv4[i])>>))
  /\ (IsBuilt("fwrule") \/ IsBuilt("natrule")) =>
       /\ input.description # <<>> =>
            Emits(SetStmt(BasePathOf, <<<<"description">>, sanitizeConfigValue(input.description)>>))
       /\ input.srcAddress # <<>> =>
            Emits(SetStmt(BasePathOf, <<<<"source">>, <<"address">>, sanitizeConfigValue(input.srcAddress)>>))

\* C20: an interface, a firewall rule and a NAT rule each get exactly one
\* toggle statement: the delete of disable when enabled, the set of disable
\* when disabled.
C20_ExactlyOneToggle ==
  (IsBuilt("interface") \/ IsBuilt("fwrule") \/ IsBuilt("natrule")) =>
    LET del == Spaced(<<<<"delete">>, BasePathOf, <<"disable">>>>)
        set == SetStmt(BasePathOf, <<<<"disable">>>>)
    IN  /\ Cardinality({i \in DOMAIN lines : lines[i] \in {del, set}}) = 1
        /\ Emits(del) <=> EnabledOf
        /\ Emits(set) <=> ~EnabledOf

\* path of the object a build method was called for
ObjectPathOf ==
  CASE kind = "route" -> Spaced(<<<<"protocols">>, <<"static">>, <<"route">>, input.network>>)
    [] kind = "ipsec" ->
         Spaced(<<<<"vpn">>, <<"ipsec">>, <<"site-to-site">>, <<"peer">>, input.remoteAddress>>)
    [] OTHER -> BasePathOf

\* the attribute a statement sets: the word after the object's path, or
\* "nested" for a statement under another path (an IKE or ESP group)
AttributeOf(stmt) ==
  LET n == Len(ObjectPathOf)
  IN  IF /\ Len(stmt) >= n + 4
         /\ stmt[1] \in {"set", "delete"}
         /\ SubSeq(stmt, 3, n + 2) = ObjectPathOf
      THEN stmt[n + 4]
      ELSE "nested"

\* the group of a statement: 1 description, 2 a collection element,
\* 3 nested sub-configuration, 4 the toggle; 0 another scalar attribute
GroupOf(stmt) ==
  LET attr == AttributeOf(stmt)
  IN  CASE attr = "description" -> 1
        [] attr = "address" -> 2
        [] attr \in {"nested", "next-hop", "interface", "source", "destination",
                     "translation", "authentication", "tunnel"} -> 3
        [] attr = "disable" -> 4
        [] OTHER -> 0

\* C21: in the list of every build method no description statement comes
\* after a collection or nested statement, no collection statement comes
\* after a nested one, the toggle is the last statement, and the addresses
\* of an interface appear in input order.
C21_StatementGroupsInOrder ==
  (IsBuilt("interface") \/ IsBuilt("route") \/ IsBuilt("fwrule") \/ IsBuilt("natrule")
     \/ IsBuilt("ipsec")) =>
    /\ \A i, j \in DOMAIN lines :
         (i < j /\ GroupOf(lines[i]) # 0 /\ GroupOf(lines[j]) # 0) =>
           GroupOf(lines[i]) <= GroupOf(lines[j])
    /\ \A i \in DOMAIN lines : GroupOf(lines[i]) = 4 => i = Len(lines)
    /\ IsBuilt("interface") =>
         \A i, j \in DOMAIN input.ipv4 :
           i < j => \E a, b \in DOMAIN lines :
                      /\ a < b
                      /\ lines[a] = SetStmt(ObjectPathOf, <<<<"address">>, sanitizeConfigValue(input.ipv4[i])>>)
                      /\ lines[b] = SetStmt(ObjectPathOf, <<<<"address">>, sanitizeConfigValue(input.ipv4[j])>>)

\* the required field a malformed interface model lacks
MissingFieldOf(iface) == IF iface.name = Missing THEN "name" ELSE "addresses"

\* C23: a build method fails only on a malformed model, and on a model that
\* lacks a required field it throws an error that names that field and
\* returns no statement list.
C23_MalformedInputFailsFast ==
  /\ (kind \in Kinds /\ input \notin MalformedInterfaces) => cfgpc # "buildThrew"
  /\ (kind = "interface" /\ input \in MalformedInterfaces /\ cfgpc # "input") =>
       /\ cfgpc = "buildThrew"
       /\ thrown.class # "none"
       /\ thrown.reading = MissingFieldOf(input)
       /\ lines = <<>>

C29_NoWriteWithoutBackup ==
  \A c \in Calls : written[c]["main"] # <<>> => backedUp[c]

\* the text of a statement of the model: "s1" stands for a set statement,
\* "s2" for a command the caller supplied that restarts the device
CommandText(cmd) ==
  CASE cmd = "s1" -> <<"set", SP, "system", SP, "host-name", SP, "r1">>
    [] cmd = "s2" -> <<"reboot", SP, "now">>
    [] cmd = ROLLBACK_0 -> <<"rollback", SP, "0">>
    [] OTHER -> <<cmd>>

\* a word, then whitespace, then a word: /rm\s+-rf/, /dd\s+if=/
MatchesPair(text, first, second) ==
  \E i, j \in DOMAIN text :
    /\ i + 1 < j
    /\ text[i] = first
    /\ text[j] = second
    /\ \A k \in (i + 1)..(j - 1) : text[k] \in Whitespace

\* CommandExecutor.validateCommand: is the command accepted
validateCommand(text) ==
  /\ text # <<>>
  /\ Trim(text) # <<>>
  /\ ~MatchesPair(text, "rm", "-rf")
  /\ ~MatchesPair(text, "dd", "if=")
  /\ ~\E i \in DOMAIN text : text[i] \in {"mkfs", "shutdown", "reboot", "poweroff"}
  /\ text[1] \in {"set", "delete", "show", "commit", "save", "rollback",
                  "configure", "exit", "compare"}

\* C30: no command that validateCommand rejects is written to the device by
\* executeCommands.
C30_RejectedCommandNeverWritten ==
  \A c \in Calls :
    \A i \in DOMAIN written[c]["main"] :
      validateCommand(CommandText(written[c]["main"][i]))

\* everything the program holds for device d and for call c on it
DeviceState(d, c) ==
  <<registered[d], connected[d], pc[c], phase[c], commandIndex[c], shellReady[c],
    timerArmed[c], output[c], outcome[c], written[c], caught[c], result[c],
    cfAfterCommit[c], cutMid[c], backedUp[c]>>

\* the steps the call for device B can take in the current state
CanStepB ==
  <<ENABLED HandlerStart(2), ENABLED BackupDone(2, "stored"), ENABLED ShellStarted(2),
    ENABLED ShellStartFailed(2), ENABLED (\E ch \in QuietChunks : Data(2, ch)),
    ENABLED TimerExpire(2), ENABLED StreamClose(2), ENABLED StreamError(2)>>

\* the line is a set line, and its path as the parser tokenizes it
IsSetLine(line) == Trim(line) # <<>> /\ StartsWithSet(Trim(line))
PathOf(line) == PathParts(SubSeq(Trim(line), 3, Len(Trim(line))))

\* the text holds a set line whose path runs through the path of another
ConflictIn(text) ==
  \E i, j \in DOMAIN text :
    IsSetLine(text[i]) /\ IsSetLine(text[j]) /\ IsProperPrefix(PathOf(text[i]), PathOf(text[j]))

\* C24: when the set lines of a text assert a Leaf and require a Branch at
\* the same path, in either order, parse raises no error, the node at that
\* path is a Branch, and the path of every set line is in the tree.
C24_ConflictCoercedToBranch ==
  (kind = "text" /\ ConflictIn(input)) =>
    /\ cfgpc # "threw"
    /\ cfgpc = "parsed" =>
         \A i \in DOMAIN input :
           IsSetLine(input[i]) =>
             /\ Has(tree, PathOf(input[i]))
             /\ (\E j \in DOMAIN input :
                   IsSetLine(input[j]) /\ IsProperPrefix(PathOf(input[i]), PathOf(input[j])))
                  => ~IsLeaf(tree, PathOf(input[i]))

\* the line begins with the set keyword, and its path split at every
\* whitespace outside quotes
BeginsWithSet(line) ==
  LET trimmed == Trim(line)
  IN  Len(trimmed) >= 2 /\ trimmed[1] = "set" /\ trimmed[2] \in Whitespace
PathOnWhitespace(line) ==
  LET trimmed == Trim(line)
      path == SubSeq(trimmed, 3, Len(trimmed))
  IN  PathParts([i \in DOMAIN path |-> IF path[i] = TAB THEN SP ELSE path[i]])

\* the paths of the set lines of a text, with the Branch paths above them
ExpectedPaths(text) ==
  UNION {{SubSeq(PathOnWhitespace(text[i]), 1, n) : n \in 1..Len(PathOnWhitespace(text[i]))} :
           i \in {k \in DOMAIN text : BeginsWithSet(text[k])}}

\* C25: parse drops the lines that do not begin with set, splits every
\* other line at whitespace outside quotes, and the tree it returns holds
\* exactly the paths of the set lines; no line makes it fail.
C25_TreeHoldsExactlySetPaths ==
  kind = "text" =>
    /\ cfgpc # "threw"
    /\ cfgpc = "parsed" => {tree[i].path : i \in DOMAIN tree} = ExpectedPaths(input)

\* the section a typed parser reads, and the result that holds nothing
SubtreeOf(parser) ==
  CASE parser = "parseInterfaces" -> Path(<<"interfaces">>)
    [] parser = "parseStaticRoutes" -> Path(<<"protocols", "static", "route">>)
    [] parser = "parseFirewallZones" -> Path(<<"zone-policy", "zone">>)
    [] parser = "parseFirewallRulesets" -> Path(<<"firewall", "name">>)
    [] parser = "parseNATRules" -> Path(<<"nat">>)
    [] parser = "parseIPSecSites" -> Path(<<"vpn", "ipsec", "site-to-site", "peer">>)
    [] OTHER -> Path(<<"system">>)

EmptyOf(parser) ==
  CASE parser = "parseNATRules" -> [source |-> <<>>, destination |-> <<>>]
    [] parser = "parseSystemConfig" ->
         [hostName |-> <<>>, domainName |-> <<>>, timeZone |-> <<>>, nameServer |-> <<>>,
          ntpServers |-> <<>>, users |-> <<>>]
    [] OTHER -> <<>>

\* C26: no typed parser throws on a parsed tree, and when the section it
\* reads is missing or is a bare Leaf its result holds nothing.
C26_MissingSubtreeEmptyResult ==
  kind = "text" =>
    /\ cfgpc # "typedThrew"
    /\ (cfgpc = "parsed" /\ NodeAt(tree, SubtreeOf(parsed.parser)) # "object") =>
         parsed.value = EmptyOf(parsed.parser)

C26_Witness ==
  /\ kind = "text"
  /\ cfgpc = "parsed"
  /\ input = <<SetLine(<<"nat">>)>>
  /\ NodeAt(tree, Path(<<"nat">>)) = "true"
  /\ parsed = [parser |-> "parseNATRules", value |-> [source |-> <<>>, destination |-> <<>>]]

\* lines of features no typed parser reads
UnknownLines == {RouteBfd, IfaceDuplex}

\* the known line under which an unknown line adds its keys
KnownLineOf(u) == IF u = RouteBfd THEN RouteHop ELSE IfaceMtu

\* C27: when a text ends with a line of an unknown feature, added under a
\* section the text already holds, parse fails only if it fails without
\* that line and every typed parser returns what it returns without it.
C27_UnknownLineIgnored ==
  (/\ kind = "text"
   /\ input # <<>>
   /\ input[Len(input)] \in UnknownLines
   /\ \E i \in 1..Len(input) - 1 : input[i] = KnownLineOf(input[Len(input)])) =>
    LET without == parse(JoinLines(SubSeq(input, 1, Len(input) - 1)), strict)
    IN  /\ cfgpc = "threw" => without.threw
        /\ cfgpc = "parsed" => parsed.value = ResultOf(parsed.parser, without.tree)

\* C28: a step that changes anything of device A (its registration, its
\* connection, its call's session, transcript, written statements or result)
\* leaves everything of device B unchanged, and the steps open to B's call
\* are the same before and after it.
C28_DevicesIndependent ==
  [][DeviceState("A", 1)' # DeviceState("A", 1)
       => /\ DeviceState("B", 2)' = DeviceState("B", 2)
          /\ CanStepB' = CanStepB]_vars

C28_Witness ==
  /\ Done(1)
  /\ result[1].class = "VyOSCommandError"
  /\ written[1]["rollback"] = RollbackCommands
  /\ ~registered["A"]
  /\ Done(2)
  /\ result[2] = Success
  /\ written[2]["main"] = FullCommands(commands[2], opts[2])
  /\ registered["B"]
  /\ connected["B"]

\* ------------------------------------------------ prompt synchronisation
\* C32: a statement is written only by the data handler, for a chunk that
\* holds a prompt marker and once a shell prompt has been recognized, and a
\* chunk makes the handler write at most one statement, the next of the queue.
C32_WritesFollowPrompts ==
  [][\A c \in Calls : \A ph \in Phases :
       written'[c][ph] # written[c][ph] =>
         /\ ph = phase[c]
         /\ written'[c][ph] = Append(written[c][ph], Queue(c)[Len(written[c][ph]) + 1])
         /\ shellReady'[c]
         /\ \E ch \in Chunks : Data(c, ch)
         /\ \A ch \in Chunks : Data(c, ch) => HasAnyPrompt(ch)]_vars

C32_Witness ==
  /\ Done(1)
  /\ result[1] = Success
  /\ Len(commands[1]) = MaxStmts
  /\ opts[1] = [commit |-> TRUE, save |-> TRUE]
  /\ written[1]["main"] = FullCommands(commands[1], opts[1])
  /\ written[1]["rollback"] = <<>>

\* C33: the stream is ended only by a chunk that arrives when every queued
\* statement has already been written, a chunk for which nothing is written.
C33_EndsAfterLastResponse ==
  [][\A c \in Calls :
       (pc[c] = "open" /\ pc'[c] = "ended") =>
         /\ commandIndex[c] = Len(Queue(c))
         /\ written'[c] = written[c]]_vars

\* C34: the session timer is armed from the shell request until the
\* channel has closed.
C34_TimerCoversSession ==
  \A c \in Calls : pc[c] \in {"starting", "open", "ended"} => timerArmed[c]

\* ------------------------------------------------------------ termination
\* C35: every invocation of executeWithRollback eventually settles.
C35_EverySessionSettles == <>Done(1)

C31_BoundedRetries ==
  /\ [](attempt <= 3)
  /\ [](testRes = "unreachable" => attempt = 3)
  /\ [][(testpc \in {"probing", "storing", "done"}) => attempt' = attempt]_vars
  /\ [][(testpc # "done" /\ testpc' = "done" /\ testRes \in {"unreachable", "probeFailed"})
         => status'[target[1]] = "offline"]_vars
  /\ (testpc # "idle") ~> (testpc = "done")

C31_Witness ==
  /\ testpc = "done"
  /\ testRes = "unreachable"
  /\ attempt = 3
  /\ status[target[1]] = "offline"

\* C37: SSH_CONNECT goes on to return success without connecting only when
\* the client it found in activeConnections is connected, and a call that
\* connected has registered a connected client.
C37_SuccessMeansConnected ==
  [][\A k \in Calls :
       (connpc[k] # "updating" /\ connpc'[k] = "updating")
         => registered'[target[k]] /\ connected'[target[k]]]_vars

\* C38: no connected client opened by SSH_CONNECT is outside
\* activeConnections.
C38_NoUnregisteredConnection == \A d \in Devices : orphans[d] = 0

====
